---- MODULE Spec2Model ----
(***************************************************************************)
(* Model of the cozyreq agent crate: Agent::new and Agent::run             *)
(* (crates/agent/src/lib.rs), the wire codec call_claude_api               *)
(* (crates/agent/src/claude.rs), the data model (crates/agent/src/types.rs)*)
(* and the dummy tool catalog (crates/agent/src/tools.rs).                 *)
(***************************************************************************)
EXTENDS Integers, Sequences, FiniteSets, TLC

\* ------------------------------------------------------------------ bounds
\* Largest number of exchanges a modelled run may issue (the code has no cap).
MaxTurns == 2
\* Largest number of content items in one backend response.
MaxBlocks == 2
\* Largest number of characters typed into the TUI's input (a String grows
\* without a cap in the code).
MaxInput == 2
\* Largest number of prompts submitted to the TUI (the log grows without a
\* cap in the code).
MaxPrompts == 1
\* Largest number of keys given to the Counter.
MaxKeys == 10

\* ------------------------------------------------- Option / Result values
None == [some |-> FALSE]
Some(v) == [some |-> TRUE, val |-> v]
Ok(v) == [ok |-> TRUE, val |-> v]
Err(e) == [ok |-> FALSE, err |-> e]

\* ------------------------------------------------ serde_json::Value model
JNull == [kind |-> "null"]
JStr(s) == [kind |-> "string", str |-> s]
\* an object is a set of <<key, value>> members with distinct keys
JObj(members) == [kind |-> "object", members |-> members]

\* serde_json `value[key]`: Null unless value is an object holding key
JIndex(v, key) ==
  IF v.kind = "object" /\ \E m \in v.members : m[1] = key
    THEN (CHOOSE m \in v.members : m[1] = key)[2]
    ELSE JNull

\* serde_json `Value::as_str`
JAsStr(v) == IF v.kind = "string" THEN Some(v.str) ELSE None

\* ------------------------------------------------------------- types.rs
ApiError(msg) == [kind |-> "ApiError", msg |-> msg]
ParseError(msg) == [kind |-> "ParseError", msg |-> msg]
ToolNotFound(name) == [kind |-> "ToolNotFound", msg |-> name]
Cancelled == [kind |-> "Cancelled"]
\* the variants of enum AgentError
AgentErrorKinds == {"ApiError", "ParseError", "ToolNotFound", "Cancelled"}

User(content) == [type |-> "User", content |-> content]
Assistant(content) == [type |-> "Assistant", content |-> content]
ToolResult(id, content) ==
  [type |-> "ToolResult", tool_use_id |-> id, content |-> content]

Text(text) == [type |-> "Text", text |-> text]
ToolUse(id, name, input) ==
  [type |-> "ToolUse", id |-> id, name |-> name, input |-> input]

Tool(name, description, input_schema) ==
  [name |-> name, description |-> description, input_schema |-> input_schema]

\* ------------------------------------------------------------- tools.rs
\* input_schema of a dummy tool with one required string property
SchemaOf(props, required) ==
  JObj({<<"type", JStr("object")>>,
        <<"properties", JObj({<<p, JObj({<<"type", JStr("string")>>})>> : p \in props})>>,
        <<"required", JStr(required)>>})

\* tool mutant: get_weather insists on a unit instead of defaulting it
get_weather_fn_requires_unit(input) ==
  LET location == JAsStr(JIndex(input, "location"))
      unit == JAsStr(JIndex(input, "unit"))
  IN IF ~location.some THEN Err("Missing location parameter")
     ELSE IF ~unit.some THEN Err("Missing unit parameter")
     ELSE Ok("Weather in " \o location.val \o ": 15 degrees " \o unit.val \o ", sunny")

\* the closure registered under "get_weather"
get_weather_fn(input) ==
  LET location == JAsStr(JIndex(input, "location"))
      unit == JAsStr(JIndex(input, "unit"))
  IN IF ~location.some THEN Err("Missing location parameter")
     ELSE Ok("Weather in " \o location.val \o ": 15 degrees "
             \o (IF unit.some THEN unit.val ELSE "celsius") \o ", sunny")

\* the closure registered under "get_time"
get_time_fn(input) ==
  LET timezone == JAsStr(JIndex(input, "timezone"))
  IN IF ~timezone.some THEN Err("Missing timezone parameter")
     ELSE Ok("Current time in " \o timezone.val \o ": 14:30")

\* the closure registered under "calculate"
calculate_fn(input) ==
  LET expression == JAsStr(JIndex(input, "expression"))
  IN IF ~expression.some THEN Err("Missing expression parameter")
     ELSE Ok("Result of '" \o expression.val \o "': 42")

\* calling a ToolFn: capabilities are named by the closure they stand for
CallToolFn(tool_fn, input) ==
  CASE tool_fn = "get_weather_fn" -> get_weather_fn(input)
    [] tool_fn = "get_time_fn" -> get_time_fn(input)
    [] tool_fn = "calculate_fn" -> calculate_fn(input)

\* catalog mutant: "calculate" is advertised but not implemented
create_dummy_tools_without_calculate ==
  [tools |->
     << Tool("get_weather", "Get the current weather in a given location",
             SchemaOf({"location", "unit"}, "location")),
        Tool("get_time", "Get the current time in a given time zone",
             SchemaOf({"timezone"}, "timezone")),
        Tool("calculate", "Calculate the result of a mathematical expression",
             SchemaOf({"expression"}, "expression")) >>,
   implementations |->
     [n \in {"get_weather", "get_time"} |-> n \o "_fn"]]

\* (tools, implementations) as returned by create_dummy_tools
create_dummy_tools ==
  [tools |->
     << Tool("get_weather", "Get the current weather in a given location",
             SchemaOf({"location", "unit"}, "location")),
        Tool("get_time", "Get the current time in a given time zone",
             SchemaOf({"timezone"}, "timezone")),
        Tool("calculate", "Calculate the result of a mathematical expression",
             SchemaOf({"expression"}, "expression")) >>,
   implementations |->
     [n \in {"get_weather", "get_time", "calculate"} |-> n \o "_fn"]]

\* ------------------------------------------------------------- claude.rs
\* the backend's descriptor of a tool (struct ApiTool)
ApiTool(tool) ==
  [name |-> tool.name, description |-> tool.description,
   input_schema |-> tool.input_schema]

\* struct ApiMessage
ApiMessage(role, content) == [role |-> role, content |-> content]

\* encoding mutant: the input of a tool_use item is sent as an empty object
BlockToWire_empty_input(block) ==
  IF block.type = "Text"
    THEN [type |-> "text", text |-> block.text]
    ELSE [type |-> "tool_use", id |-> block.id, name |-> block.name,
          input |-> JObj({})]

\* the json! item built for one ContentBlock of an assistant message
BlockToWire(block) ==
  IF block.type = "Text"
    THEN [type |-> "text", text |-> block.text]
    ELSE [type |-> "tool_use", id |-> block.id, name |-> block.name,
          input |-> block.input]

\* the ApiMessage built for one Message
MessageToApi(message) ==
  CASE message.type = "User" ->
         ApiMessage("user", JStr(message.content))
    [] message.type = "Assistant" ->
         ApiMessage("assistant",
                    [i \in 1..Len(message.content) |-> BlockToWire(message.content[i])])
    [] message.type = "ToolResult" ->
         ApiMessage("user",
                    << [type |-> "tool_result",
                        tool_use_id |-> message.tool_use_id,
                        content |-> message.content] >>)

\* translation mutant: assistant messages without content are left out
messages_to_api_format_skips_empty(messages) ==
  LET kept == SelectSeq(messages,
                        LAMBDA m : ~(m.type = "Assistant" /\ m.content = <<>>))
  IN [i \in 1..Len(kept) |-> MessageToApi(kept[i])]

\* the loop over messages: one ApiMessage is pushed per Message, in order
messages_to_api_format(messages) ==
  [i \in 1..Len(messages) |-> MessageToApi(messages[i])]

\* the fixed per-call token budget of ApiRequest
max_tokens == 1024

\* struct ApiRequest as built by call_claude_api
ApiRequest(api_key, model, system_prompt, tools, messages) ==
  [url |-> "https://api.anthropic.com/v1/messages",
   headers |-> [content_type |-> "application/json", x_api_key |-> api_key,
                anthropic_version |-> "2023-06-01"],
   model |-> model,
   max_tokens |-> max_tokens,
   system |-> system_prompt,
   tools |-> [i \in 1..Len(tools) |-> ApiTool(tools[i])],
   messages |-> messages_to_api_format(messages)]

\* serde decoding of one content item into enum ApiContentBlock
\* (tag = "type", snake_case); an unknown tag is a decoding error
DecodeApiContentBlock(item) ==
  CASE item.type = "text" -> Ok([variant |-> "Text", text |-> item.text])
    [] item.type = "tool_use" ->
         Ok([variant |-> "ToolUse", id |-> item.id, name |-> item.name,
             input |-> item.input])
    [] OTHER -> Err("unknown variant " \o item.type)

\* the match converting an ApiContentBlock into a ContentBlock
FromApiContentBlock(block) ==
  IF block.variant = "Text"
    THEN Text(block.text)
    ELSE ToolUse(block.id, block.name, block.input)

\* Display of the HTTP status line used in the ApiError message
StatusDisplay(status) ==
  CASE status = 200 -> "200 OK"
    [] status = 401 -> "401 Unauthorized"
    [] status = 500 -> "500 Internal Server Error"
    [] OTHER -> ToString(status) \o " <unknown status code>"

\* StatusCode::is_success
IsSuccess(status) == status >= 200 /\ status < 300

\* response.json::<ApiResponse>(): the body must be readable and decode
ResponseJson(body) ==
  CASE body.kind = "unreadable" -> Err("error reading response body")
    [] body.kind = "not_json" -> Err("error decoding response body")
    [] body.kind = "json" ->
         IF \E i \in 1..Len(body.content) : ~DecodeApiContentBlock(body.content[i]).ok
           THEN Err("error decoding response body")
           ELSE Ok([content |-> [i \in 1..Len(body.content) |->
                                   DecodeApiContentBlock(body.content[i]).val],
                    stop_reason |-> body.stop_reason,
                    usage |-> body.usage])

\* ParseError mutant: a body that does not parse is reported as ApiError
call_claude_api_parse_as_api(outcome) ==
  IF outcome.send = "fail"
    THEN Err(ApiError("Failed to send request: " \o outcome.error))
  ELSE IF ~IsSuccess(outcome.status)
    THEN Err(ApiError("API returned status " \o StatusDisplay(outcome.status)
                      \o ": " \o (IF outcome.body.kind = "text"
                                    THEN outcome.body.text ELSE "Unknown error")))
  ELSE IF ~ResponseJson(outcome.body).ok
    THEN Err(ApiError("Failed to parse response: " \o ResponseJson(outcome.body).err))
  ELSE LET api_response == ResponseJson(outcome.body).val
       IN Ok([content_blocks |->
                [i \in 1..Len(api_response.content) |->
                   FromApiContentBlock(api_response.content[i])],
              stop_reason |-> api_response.stop_reason])

\* call_claude_api from the send on: what the exchange returns for one
\* behaviour of the backend (outcome)
call_claude_api(outcome) ==
  IF outcome.send = "fail"
    THEN Err(ApiError("Failed to send request: " \o outcome.error))
  ELSE IF ~IsSuccess(outcome.status)
    THEN Err(ApiError("API returned status " \o StatusDisplay(outcome.status)
                      \o ": " \o (IF outcome.body.kind = "text"
                                    THEN outcome.body.text ELSE "Unknown error")))
  ELSE IF ~ResponseJson(outcome.body).ok
    THEN Err(ParseError("Failed to parse response: " \o ResponseJson(outcome.body).err))
  ELSE LET api_response == ResponseJson(outcome.body).val
       IN Ok([content_blocks |->
                [i \in 1..Len(api_response.content) |->
                   FromApiContentBlock(api_response.content[i])],
              stop_reason |-> api_response.stop_reason])

\* ------------------------------------------------------- the environment
\* states of the ANTHROPIC_API_KEY environment variable
EnvStates ==
  { [kind |-> "unset"], [kind |-> "not_unicode"],
    [kind |-> "unicode", val |-> "test-key"] }

\* std::env::var: Err when the variable is unset or is not valid Unicode
EnvVar(e) == IF e.kind = "unicode" THEN Ok(e.val) ELSE Err(e.kind)

\* system prompts a caller may pass to Agent::new
SystemPrompts == {"Test prompt", "You are a helpful assistant"}

\* (tools, tool_implementations) pairs a caller may pass to Agent::new:
\* the dummy catalog, and a descriptor list with no implementation at all
Catalogs ==
  { create_dummy_tools,
    [tools |-> <<create_dummy_tools.tools[1]>>,
     implementations |-> [n \in {} |-> n]] }

\* prompts a caller may pass to Agent::run
Prompts == {"Hello"}

\* what the backend may ask for in one tool_use item: a registered tool with
\* an input it accepts, the same tool with an input it rejects, and a name
\* that is not in the dummy catalog
ToolRequests ==
  { [name |-> "get_weather", input |-> JObj({<<"location", JStr("X")>>})],
    [name |-> "get_weather", input |-> JObj({})],
    [name |-> "Get_Weather", input |-> JObj({})] }

\* the text item a response may lead with
TextItem == [type |-> "text", text |-> "Hi!"]

\* the id the backend assigns to item i of the response of exchange turn:
\* an opaque string, unique over the run
BackendId(turn, i) == "toolu_" \o ToString(turn) \o "_" \o ToString(i)

\* the tool_use items for a sequence of tool requests, placed after `lead`
\* earlier items of the response of exchange turn
ToolUseItems(turn, lead, requests) ==
  [i \in 1..Len(requests) |->
     [type |-> "tool_use", id |-> BackendId(turn, lead + i),
      name |-> requests[i].name, input |-> requests[i].input]]

\* the content arrays of the wire response of exchange turn: at most
\* MaxBlocks items, an optional leading text item followed by tool_use items
WireContents(turn) ==
  { ToolUseItems(turn, 0, rs) :
      rs \in UNION { [1..n -> ToolRequests] : n \in 0..MaxBlocks } }
  \cup { <<TextItem>> \o ToolUseItems(turn, 1, rs) :
           rs \in UNION { [1..n -> ToolRequests] : n \in 0..(MaxBlocks - 1) } }

StopReasons == {"end_turn", "tool_use", "max_tokens"}

\* bodies of the expected shape: {content, stop_reason, usage}
ResponseBodies(turn) ==
  { [kind |-> "json", content |-> c, stop_reason |-> sr,
     usage |-> [input_tokens |-> 10, output_tokens |-> 5]] :
      c \in WireContents(turn), sr \in StopReasons }

\* a body of the expected outer shape holding an item of an unknown type
UnknownItemBody ==
  [kind |-> "json", content |-> << [type |-> "thinking"] >>,
   stop_reason |-> "end_turn",
   usage |-> [input_tokens |-> 10, output_tokens |-> 5]]

\* every behaviour of the network and backend, per exchange number
OutcomeTable ==
  [turn \in 1..MaxTurns |->
     { [send |-> "fail", error |-> "connection refused"] }
     \cup { [send |-> "ok", status |-> st, body |-> b] :
              st \in {401, 500},
              b \in { [kind |-> "unreadable"], [kind |-> "text", text |-> "overloaded"] } }
     \cup { [send |-> "ok", status |-> 200, body |-> b] :
              b \in { [kind |-> "unreadable"], [kind |-> "not_json"], UnknownItemBody }
                    \cup ResponseBodies(turn) }]

\* every behaviour of the network and backend for the exchange number turn
Outcomes(turn) == OutcomeTable[turn]

\* ---------------------------------------------------------------- lib.rs
VARIABLES
  env,               \* the ANTHROPIC_API_KEY environment variable
  pc,                \* "main", "no_agent", "ready", "loop_top", "exchange",
                     \* "tools", "returned"
  agent,             \* what Agent::new returned: None before the call
  cancel_token,      \* CancellationToken::is_cancelled
  cancel_pc,         \* where the run was when the token was cancelled ("" if not)
  message_history,   \* run's local message_history
  iteration_count,   \* run's local iteration_count
  request,           \* the ApiRequest of the latest exchange: None before it
  outcome,           \* how network and backend behaved in the latest exchange
  content_blocks,    \* run's local content_blocks (latest response)
  stop_reason,       \* run's local stop_reason (latest response)
  tool_uses,         \* the part of the batch the for loop has yet to visit
  tool_calls,        \* number of ToolFn calls made so far
  result,            \* what run returned: None until it returns
  prompt,            \* run's argument prompt ("" before the call)
  d_impls,           \* a tool_implementations map one invocation is dispatched on
  d_tool_use,        \* that invocation: a (tool_use_id, tool_name, tool_input) item
  d_result,          \* what dispatching it gave: None before it is dispatched
  runs,              \* the local state of each of several runs on one Agent
  model,             \* the TUI's Model (None while no TUI is modelled)
  app,               \* the TUI's monolithic App fed the same keys as the Model
  counter            \* the Counter component

\* the variables of the dispatch of one invocation taken alone
dispatch_vars == << d_impls, d_tool_use, d_result >>

\* the variables of runs executing concurrently
conc_vars == << runs >>

\* the variables of the terminal user interface
tui_vars == << model, app, counter >>

vars ==
  << env, pc, agent, cancel_token, cancel_pc, message_history, iteration_count,
     request, outcome, content_blocks, stop_reason, tool_uses, tool_calls, result,
     prompt, dispatch_vars, conc_vars, tui_vars >>

\* Agent::new mutant: refuses a catalog without implementations
AgentNew_needs_implementations(system_prompt, tools, tool_implementations, e) ==
  IF ~EnvVar(e).ok \/ DOMAIN tool_implementations = {}
    THEN Err(ApiError("ANTHROPIC_API_KEY environment variable not set"))
    ELSE Ok([api_key |-> EnvVar(e).val,
             model |-> "claude-sonnet-4-5",
             system_prompt |-> system_prompt,
             tools |-> tools,
             tool_implementations |-> tool_implementations])

\* Agent::new
AgentNew(system_prompt, tools, tool_implementations, e) ==
  IF ~EnvVar(e).ok
    THEN Err(ApiError("ANTHROPIC_API_KEY environment variable not set"))
    ELSE Ok([api_key |-> EnvVar(e).val,
             model |-> "claude-sonnet-4-5",
             system_prompt |-> system_prompt,
             tools |-> tools,
             tool_implementations |-> tool_implementations])

\* ASCII lower-casing of the tool names in use (other names are unchanged)
LowerCase(name) ==
  CASE name = "Get_Weather" -> "get_weather"
    [] name = "GET_TIME" -> "get_time"
    [] name = "Calculate" -> "calculate"
    [] OTHER -> name

\* lookup mutant: names are compared without regard to letter case
Lookup_ignores_case(tool_implementations, tool_name) ==
  IF LowerCase(tool_name) \in DOMAIN tool_implementations
    THEN Some(tool_implementations[LowerCase(tool_name)])
    ELSE None

\* HashMap::get on tool_implementations
Lookup(tool_implementations, tool_name) ==
  IF tool_name \in DOMAIN tool_implementations
    THEN Some(tool_implementations[tool_name])
    ELSE None

\* filter_map mutant: the batch is collected back to front
CollectToolUses_reversed(blocks) ==
  LET uses == SelectSeq(blocks, LAMBDA b : b.type = "ToolUse")
  IN [i \in 1..Len(uses) |-> uses[Len(uses) + 1 - i]]

\* filter_map mutant: the last ToolUse block is left out of the batch
CollectToolUses_drop_last(blocks) ==
  LET uses == SelectSeq(blocks, LAMBDA b : b.type = "ToolUse")
  IN IF uses = <<>> THEN uses ELSE SubSeq(uses, 1, Len(uses) - 1)

\* the filter_map collecting the ToolUse blocks of a response, in order
CollectToolUses(blocks) == SelectSeq(blocks, LAMBDA b : b.type = "ToolUse")

\* result mutant: the error text of a ToolFn is passed on without its prefix
ResultContent_unprefixed(r) == IF r.ok THEN r.val ELSE r.err

\* the content of the ToolResult built from what a ToolFn returned
ResultContent(r) == IF r.ok THEN r.val ELSE "Error: " \o r.err

\* stop-reason mutant: "end_turn" is handled like "tool_use"
AfterResponse_end_turn_runs_tools(reason) ==
  IF reason = "end_turn" \/ reason = "tool_use" THEN "tools" ELSE "break"

\* stop-reason mutant: only "end_turn" ends the run, any other stop reason
\* is handled like "tool_use"
AfterResponse_only_end_turn_breaks(reason) ==
  IF reason = "end_turn" THEN "break" ELSE "tools"

\* the branch run takes on a stop reason: break out of the loop and return
\* the history, or execute the tool batch and continue
AfterResponse(reason) ==
  IF reason = "end_turn" THEN "break"
  ELSE IF reason = "tool_use" THEN "tools"
  ELSE "break"

\* nothing is being dispatched on its own
DispatchIdle ==
  /\ d_impls = [n \in {} |-> n]
  /\ d_tool_use = ToolUse("", "", JNull)
  /\ d_result = None

\* no agent has been constructed and no run started
MainIdle ==
  /\ pc = "main"
  /\ agent = None
  /\ cancel_token = FALSE
  /\ cancel_pc = ""
  /\ message_history = <<>>
  /\ iteration_count = 0
  /\ request = None
  /\ outcome = None
  /\ content_blocks = <<>>
  /\ stop_reason = ""
  /\ tool_uses = <<>>
  /\ tool_calls = 0
  /\ result = None
  /\ prompt = ""

\* no run has been spawned beside the one of pc
ConcIdle == runs = << >>

\* no terminal user interface has been created
TuiIdle == model = None /\ app = None /\ counter = None

Init ==
  /\ env \in EnvStates
  /\ MainIdle
  /\ DispatchIdle
  /\ ConcIdle
  /\ TuiIdle

\* the caller constructs the agent
New(system_prompt, catalog) ==
  /\ pc = "main"
  /\ agent' = Some(AgentNew(system_prompt, catalog.tools, catalog.implementations, env))
  /\ pc' = IF agent'.val.ok THEN "ready" ELSE "no_agent"
  /\ UNCHANGED << env, prompt, dispatch_vars, conc_vars, tui_vars, cancel_token, cancel_pc, message_history, iteration_count,
                  request, outcome, content_blocks, stop_reason, tool_uses,
                  tool_calls, result >>

\* some holder of the token calls CancellationToken::cancel
Cancel ==
  /\ pc \in {"ready", "loop_top", "exchange", "tools"}
  /\ ~cancel_token
  /\ cancel_token' = TRUE
  /\ cancel_pc' = pc
  /\ UNCHANGED << env, prompt, dispatch_vars, conc_vars, tui_vars, pc, agent, message_history, iteration_count, request,
                  outcome, content_blocks, stop_reason, tool_uses, tool_calls, result >>

\* entry mutant: the history is seeded with the system prompt as well
Run_seeds_system_prompt(p) ==
  /\ pc = "ready"
  /\ prompt' = p
  /\ message_history' = << User(agent.val.val.system_prompt), User(p) >>
  /\ iteration_count' = 0
  /\ pc' = "loop_top"
  /\ UNCHANGED << env, dispatch_vars, conc_vars, tui_vars, agent, cancel_token, cancel_pc, request, outcome,
                  content_blocks, stop_reason, tool_uses, tool_calls, result >>

\* Agent::run is called: the history is seeded with the prompt
Run(p) ==
  /\ pc = "ready"
  /\ prompt' = p
  /\ message_history' = << User(p) >>
  /\ iteration_count' = 0
  /\ pc' = "loop_top"
  /\ UNCHANGED << env, dispatch_vars, conc_vars, tui_vars, agent, cancel_token, cancel_pc, request, outcome,
                  content_blocks, stop_reason, tool_uses, tool_calls, result >>

\* cancellation-check mutant: a cancelled run returns its history as Ok
CheckCancelled_returns_history ==
  /\ pc = "loop_top"
  /\ cancel_token
  /\ result' = Some(Ok(message_history))
  /\ pc' = "returned"
  /\ UNCHANGED << env, prompt, dispatch_vars, conc_vars, tui_vars, agent, cancel_token, cancel_pc, message_history,
                  iteration_count, request, outcome, content_blocks, stop_reason,
                  tool_uses, tool_calls >>

\* top of the loop with the token cancelled: return Err(Cancelled)
CheckCancelled ==
  /\ pc = "loop_top"
  /\ cancel_token
  /\ result' = Some(Err(Cancelled))
  /\ pc' = "returned"
  /\ UNCHANGED << env, prompt, dispatch_vars, conc_vars, tui_vars, agent, cancel_token, cancel_pc, message_history,
                  iteration_count, request, outcome, content_blocks, stop_reason,
                  tool_uses, tool_calls >>

\* exchange mutant: the request is sent without looking at the token
IssueExchange_unchecked ==
  /\ pc = "loop_top"
  /\ iteration_count < MaxTurns
  /\ iteration_count' = iteration_count + 1
  /\ request' = Some(ApiRequest(agent.val.val.api_key, agent.val.val.model,
                                agent.val.val.system_prompt, agent.val.val.tools,
                                message_history))
  /\ pc' = "exchange"
  /\ UNCHANGED << env, prompt, dispatch_vars, conc_vars, tui_vars, agent, cancel_token, cancel_pc, message_history, outcome,
                  content_blocks, stop_reason, tool_uses, tool_calls, result >>

\* exchange mutant: only the latest message of the history is sent
IssueExchange_sends_last_message ==
  /\ pc = "loop_top"
  /\ ~cancel_token
  /\ iteration_count < MaxTurns
  /\ iteration_count' = iteration_count + 1
  /\ request' = Some(ApiRequest(agent.val.val.api_key, agent.val.val.model,
                                agent.val.val.system_prompt, agent.val.val.tools,
                                << message_history[Len(message_history)] >>))
  /\ pc' = "exchange"
  /\ UNCHANGED << env, prompt, dispatch_vars, conc_vars, tui_vars, agent, cancel_token, cancel_pc, message_history, outcome,
                  content_blocks, stop_reason, tool_uses, tool_calls, result >>

\* top of the loop, not cancelled: call_claude_api builds and sends the request
IssueExchange ==
  /\ pc = "loop_top"
  /\ ~cancel_token
  /\ iteration_count < MaxTurns
  /\ iteration_count' = iteration_count + 1
  /\ request' = Some(ApiRequest(agent.val.val.api_key, agent.val.val.model,
                                agent.val.val.system_prompt, agent.val.val.tools,
                                message_history))
  /\ pc' = "exchange"
  /\ UNCHANGED << env, prompt, dispatch_vars, conc_vars, tui_vars, agent, cancel_token, cancel_pc, message_history, outcome,
                  content_blocks, stop_reason, tool_uses, tool_calls, result >>

\* exchange-failure mutant: a failed exchange is tried again from the loop top
ExchangeFails_retries ==
  /\ pc = "exchange"
  /\ \E o \in Outcomes(iteration_count) :
       /\ outcome' = Some(o)
       /\ ~call_claude_api(o).ok
       /\ IF iteration_count < MaxTurns
            THEN pc' = "loop_top" /\ UNCHANGED result
            ELSE pc' = "returned" /\ result' = Some(Err(call_claude_api(o).err))
  /\ UNCHANGED << env, prompt, dispatch_vars, conc_vars, tui_vars, agent, cancel_token, cancel_pc, message_history,
                  iteration_count, request, content_blocks, stop_reason,
                  tool_uses, tool_calls >>

\* call_claude_api returns an error: `?` makes run return it
ExchangeFails ==
  /\ pc = "exchange"
  /\ \E o \in Outcomes(iteration_count) :
       /\ outcome' = Some(o)
       /\ ~call_claude_api(o).ok
       /\ result' = Some(Err(call_claude_api(o).err))
  /\ pc' = "returned"
  /\ UNCHANGED << env, prompt, dispatch_vars, conc_vars, tui_vars, agent, cancel_token, cancel_pc, message_history,
                  iteration_count, request, content_blocks, stop_reason,
                  tool_uses, tool_calls >>

\* exchange mutant: the token is looked at when the response arrives
ExchangeSucceeds_observes_cancel ==
  /\ pc = "exchange"
  /\ \E o \in Outcomes(iteration_count) :
       LET r == call_claude_api(o) IN
         /\ outcome' = Some(o)
         /\ r.ok
         /\ content_blocks' = r.val.content_blocks
         /\ stop_reason' = r.val.stop_reason
         /\ IF cancel_token
              THEN /\ result' = Some(Err(Cancelled))
                   /\ pc' = "returned"
                   /\ UNCHANGED << message_history, tool_uses >>
            ELSE IF AfterResponse(r.val.stop_reason) = "tools"
              THEN /\ message_history' = Append(message_history, Assistant(r.val.content_blocks))
                   /\ tool_uses' = CollectToolUses(r.val.content_blocks)
                   /\ pc' = IF tool_uses' = <<>> THEN "loop_top" ELSE "tools"
                   /\ UNCHANGED result
              ELSE /\ message_history' = Append(message_history, Assistant(r.val.content_blocks))
                   /\ result' = Some(Ok(message_history'))
                   /\ pc' = "returned"
                   /\ UNCHANGED tool_uses
  /\ UNCHANGED << env, prompt, dispatch_vars, conc_vars, tui_vars, agent, cancel_token, cancel_pc, iteration_count, request,
                  tool_calls >>

\* call_claude_api returns (content_blocks, stop_reason): the assistant
\* message is pushed and the stop reason decides between break and the batch
ExchangeSucceeds ==
  /\ pc = "exchange"
  /\ \E o \in Outcomes(iteration_count) :
       LET r == call_claude_api(o) IN
         /\ outcome' = Some(o)
         /\ r.ok
         /\ content_blocks' = r.val.content_blocks
         /\ stop_reason' = r.val.stop_reason
         /\ message_history' = Append(message_history, Assistant(r.val.content_blocks))
         /\ IF AfterResponse(r.val.stop_reason) = "tools"
              THEN /\ tool_uses' = CollectToolUses(r.val.content_blocks)
                   /\ pc' = IF tool_uses' = <<>> THEN "loop_top" ELSE "tools"
                   /\ UNCHANGED result
              ELSE /\ result' = Some(Ok(message_history'))
                   /\ pc' = "returned"
                   /\ UNCHANGED tool_uses
  /\ UNCHANGED << env, prompt, dispatch_vars, conc_vars, tui_vars, agent, cancel_token, cancel_pc, iteration_count, request,
                  tool_calls >>

\* tool-loop mutant: the token is checked before each tool of the batch
ExecuteTool_checks_token ==
  /\ pc = "tools"
  /\ tool_uses # <<>>
  /\ LET tool_use == Head(tool_uses)
         tool_fn == Lookup(agent.val.val.tool_implementations, tool_use.name)
     IN IF cancel_token
          THEN /\ result' = Some(Err(Cancelled))
               /\ pc' = "returned"
               /\ UNCHANGED << message_history, tool_uses, tool_calls >>
        ELSE IF ~tool_fn.some
          THEN /\ result' = Some(Err(ToolNotFound(tool_use.name)))
               /\ pc' = "returned"
               /\ UNCHANGED << message_history, tool_uses, tool_calls >>
          ELSE /\ message_history' =
                    Append(message_history,
                           ToolResult(tool_use.id,
                                      ResultContent(CallToolFn(tool_fn.val, tool_use.input))))
               /\ tool_calls' = tool_calls + 1
               /\ tool_uses' = Tail(tool_uses)
               /\ pc' = IF tool_uses' = <<>> THEN "loop_top" ELSE "tools"
               /\ UNCHANGED result
  /\ UNCHANGED << env, prompt, dispatch_vars, conc_vars, tui_vars, agent, cancel_token, cancel_pc, iteration_count, request,
                  outcome, content_blocks, stop_reason >>

\* tool-loop mutant: a missing tool rolls the results of its batch back
ExecuteTool_rolls_back ==
  /\ pc = "tools"
  /\ tool_uses # <<>>
  /\ LET tool_use == Head(tool_uses)
         tool_fn == Lookup(agent.val.val.tool_implementations, tool_use.name)
     IN IF ~tool_fn.some
          THEN /\ result' = Some(Err(ToolNotFound(tool_use.name)))
               /\ pc' = "returned"
               /\ message_history' =
                    SelectSeq(message_history, LAMBDA m : m.type # "ToolResult")
               /\ UNCHANGED << tool_uses, tool_calls >>
          ELSE /\ message_history' =
                    Append(message_history,
                           ToolResult(tool_use.id,
                                      ResultContent(CallToolFn(tool_fn.val, tool_use.input))))
               /\ tool_calls' = tool_calls + 1
               /\ tool_uses' = Tail(tool_uses)
               /\ pc' = IF tool_uses' = <<>> THEN "loop_top" ELSE "tools"
               /\ UNCHANGED result
  /\ UNCHANGED << env, prompt, dispatch_vars, conc_vars, tui_vars, agent, cancel_token, cancel_pc, iteration_count, request,
                  outcome, content_blocks, stop_reason >>

\* tool-loop mutant: every name of the batch is looked up before any tool
\* of the batch is called
ExecuteTool_validates_batch_first ==
  /\ pc = "tools"
  /\ tool_uses # <<>>
  /\ LET tool_use == Head(tool_uses)
         tool_fn == Lookup(agent.val.val.tool_implementations, tool_use.name)
         missing == { i \in 1..Len(tool_uses) :
                        ~Lookup(agent.val.val.tool_implementations, tool_uses[i].name).some }
     IN IF missing # {}
          THEN /\ result' = Some(Err(ToolNotFound(
                                tool_uses[CHOOSE i \in missing : \A j \in missing : i <= j].name)))
               /\ pc' = "returned"
               /\ UNCHANGED << message_history, tool_uses, tool_calls >>
          ELSE /\ message_history' =
                    Append(message_history,
                           ToolResult(tool_use.id,
                                      ResultContent(CallToolFn(tool_fn.val, tool_use.input))))
               /\ tool_calls' = tool_calls + 1
               /\ tool_uses' = Tail(tool_uses)
               /\ pc' = IF tool_uses' = <<>> THEN "loop_top" ELSE "tools"
               /\ UNCHANGED result
  /\ UNCHANGED << env, prompt, dispatch_vars, conc_vars, tui_vars, agent, cancel_token, cancel_pc, iteration_count, request,
                  outcome, content_blocks, stop_reason >>

\* one pass of the for loop over tool_uses: look the tool up, call it, push
\* its ToolResult; after the last one `continue` leads back to the loop top
ExecuteTool ==
  /\ pc = "tools"
  /\ tool_uses # <<>>
  /\ LET tool_use == Head(tool_uses)
         tool_fn == Lookup(agent.val.val.tool_implementations, tool_use.name)
     IN IF ~tool_fn.some
          THEN /\ result' = Some(Err(ToolNotFound(tool_use.name)))
               /\ pc' = "returned"
               /\ UNCHANGED << message_history, tool_uses, tool_calls >>
          ELSE /\ message_history' =
                    Append(message_history,
                           ToolResult(tool_use.id,
                                      ResultContent(CallToolFn(tool_fn.val, tool_use.input))))
               /\ tool_calls' = tool_calls + 1
               /\ tool_uses' = Tail(tool_uses)
               /\ pc' = IF tool_uses' = <<>> THEN "loop_top" ELSE "tools"
               /\ UNCHANGED result
  /\ UNCHANGED << env, prompt, dispatch_vars, conc_vars, tui_vars, agent, cancel_token, cancel_pc, iteration_count, request,
                  outcome, content_blocks, stop_reason >>

Next ==
  \/ \E sp \in SystemPrompts, c \in Catalogs : New(sp, c)
  \/ Cancel
  \/ \E p \in Prompts : Run(p)
  \/ CheckCancelled
  \/ IssueExchange
  \/ ExchangeFails
  \/ ExchangeSucceeds
  \/ ExecuteTool

Spec == Init /\ [][Next]_vars

\* the steps run takes by itself once it is polled: the check at the loop
\* top, the sending of the request, one pass of the for loop
RunStep == CheckCancelled \/ IssueExchange \/ ExecuteTool

\* the exchange in flight completes: the send fails or a response arrives
ExchangeReturns == ExchangeFails \/ ExchangeSucceeds

\* Agent::new has returned an Agent and run has not been called yet
InitFair ==
  /\ env = [kind |-> "unicode", val |-> "test-key"]
  /\ \E c \in Catalogs :
       agent = Some(AgentNew("Test prompt", c.tools, c.implementations, env))
  /\ pc = "ready" /\ cancel_token = FALSE /\ cancel_pc = ""
  /\ message_history = <<>> /\ iteration_count = 0 /\ request = None
  /\ outcome = None /\ content_blocks = <<>> /\ stop_reason = ""
  /\ tool_uses = <<>> /\ tool_calls = 0 /\ result = None /\ prompt = ""
  /\ DispatchIdle
  /\ ConcIdle
  /\ TuiIdle

\* the steps of a run and of the holder of its token
NextFair ==
  \/ Cancel
  \/ \E p \in Prompts : Run(p)
  \/ CheckCancelled
  \/ IssueExchange
  \/ ExchangeFails
  \/ ExchangeSucceeds
  \/ ExecuteTool

\* the run under a fair executor and a backend that answers every request
SpecFair ==
  /\ InitFair /\ [][NextFair]_vars
  /\ WF_vars(RunStep)
  /\ WF_vars(ExchangeReturns)

\* ------------------------------------- one invocation dispatched on its own
\* the body of the for loop as a function of the map and the invocation:
\* Err(ToolNotFound) from the lookup, else the ToolResult that is pushed
DispatchOne(tool_implementations, tool_use) ==
  LET tool_fn == Lookup(tool_implementations, tool_use.name)
  IN IF ~tool_fn.some
       THEN Err(ToolNotFound(tool_use.name))
       ELSE Ok(ToolResult(tool_use.id,
                          ResultContent(CallToolFn(tool_fn.val, tool_use.input))))

\* tool names an invocation may carry: the registered names, and names that
\* differ from one in letter case, are a prefix of one, or extend one
DispatchNames ==
  { "get_weather", "get_time", "calculate",
    "Get_Weather", "GET_TIME", "Calculate",
    "get_weathe", "get", "calc",
    "get_weather_v2", "get_time ", "calculator", "" }

\* inputs an invocation may carry
DispatchInputs ==
  { JObj({}),
    JObj({<<"location", JStr("X")>>}),
    JObj({<<"location", JStr("X")>>, <<"unit", JStr("fahrenheit")>>}),
    JObj({<<"location", JNull>>}),
    JObj({<<"timezone", JStr("UTC")>>}),
    JObj({<<"expression", JStr("2 + 2")>>}),
    JNull }

InitDispatch ==
  /\ env = [kind |-> "unicode", val |-> "test-key"]
  /\ MainIdle
  /\ d_impls \in { c.implementations : c \in Catalogs }
  /\ d_tool_use \in { ToolUse("toolu_1_1", n, i) : n \in DispatchNames, i \in DispatchInputs }
  /\ d_result = None
  /\ ConcIdle
  /\ TuiIdle

\* the invocation is looked up and, if found, called
Dispatch ==
  /\ d_result = None
  /\ d_result' = Some(DispatchOne(d_impls, d_tool_use))
  /\ UNCHANGED << env, pc, agent, cancel_token, cancel_pc, message_history,
                  iteration_count, request, outcome, content_blocks, stop_reason,
                  tool_uses, tool_calls, result, prompt, d_impls, d_tool_use,
                  conc_vars, tui_vars >>

NextDispatch == Dispatch

SpecDispatch == InitDispatch /\ [][NextDispatch]_vars

\* ----------------------------------------- several runs on the same Agent
\* the runs spawned on the Agent: each is one call of run(&self, ..)
RunIds == {1, 2}

\* the prompt each caller passes
PromptOf(r) == IF r = 1 THEN "Hello" ELSE "Bye"

\* the locals of a call of run before its first statement
RunLocals ==
  [pc |-> "ready", cancel_token |-> FALSE, message_history |-> <<>>,
   iteration_count |-> 0, tool_uses |-> <<>>, log |-> <<>>, result |-> None]

\* what the backend answers to an exchange of a concurrent run: a failed
\* send, or a reply that is a text, one invocation of a registered tool, or
\* that invocation followed by one of an unknown name
ConcOutcomes(turn) ==
  { [send |-> "fail", error |-> "connection refused"] }
  \cup { [send |-> "ok", status |-> 200,
          body |-> [kind |-> "json", content |-> c, stop_reason |-> sr,
                    usage |-> [input_tokens |-> 10, output_tokens |-> 5]]] :
           c \in { <<TextItem>>,
                   ToolUseItems(turn, 0,
                     << [name |-> "get_weather",
                         input |-> JObj({<<"location", JStr("X")>>})] >>),
                   ToolUseItems(turn, 0,
                     << [name |-> "get_weather",
                         input |-> JObj({<<"location", JStr("X")>>})],
                        [name |-> "Get_Weather", input |-> JObj({})] >>) },
           sr \in {"end_turn", "tool_use"} }

\* sharing mutant: message_history is a field of the Agent, so a push of
\* one run lands in the history of every run that is under way
ConcPush_shared(rs, r, message) ==
  [q \in DOMAIN rs |->
     IF q = r \/ rs[q].pc \in {"loop_top", "exchange", "tools"}
       THEN [rs[q] EXCEPT !.message_history = Append(@, message)]
       ELSE rs[q]]

\* message_history.push(message) in run r: the Vec is a local of that call
ConcPush(rs, r, message) ==
  [rs EXCEPT ![r].message_history = Append(@, message)]

InitConc ==
  /\ env = [kind |-> "unicode", val |-> "test-key"]
  /\ \E c \in Catalogs :
       agent = Some(AgentNew("Test prompt", c.tools, c.implementations, env))
  /\ pc = "ready" /\ cancel_token = FALSE /\ cancel_pc = ""
  /\ message_history = <<>> /\ iteration_count = 0 /\ request = None
  /\ outcome = None /\ content_blocks = <<>> /\ stop_reason = ""
  /\ tool_uses = <<>> /\ tool_calls = 0 /\ result = None /\ prompt = ""
  /\ DispatchIdle
  /\ TuiIdle
  /\ runs = [r \in RunIds |-> RunLocals]

\* the variables no concurrent run touches: the Agent behind &self and the
\* state of the other specifications
conc_frame ==
  << env, pc, agent, cancel_token, cancel_pc, message_history, iteration_count,
     request, outcome, content_blocks, stop_reason, tool_uses, tool_calls, result,
     prompt, dispatch_vars, tui_vars >>

\* run r is called with its prompt
ConcRun(r) ==
  /\ runs[r].pc = "ready"
  /\ runs' = [ConcPush(runs, r, User(PromptOf(r))) EXCEPT ![r].pc = "loop_top"]
  /\ UNCHANGED conc_frame

\* the token of run r is cancelled
ConcCancel(r) ==
  /\ runs[r].pc \in {"ready", "loop_top", "exchange", "tools"}
  /\ ~runs[r].cancel_token
  /\ runs' = [runs EXCEPT ![r].cancel_token = TRUE]
  /\ UNCHANGED conc_frame

\* top of the loop of run r: return Err(Cancelled) or send the request
ConcLoopTop(r) ==
  /\ runs[r].pc = "loop_top"
  /\ IF runs[r].cancel_token
       THEN runs' = [runs EXCEPT ![r].result = Some(Err(Cancelled)),
                                 ![r].log = Append(@, [kind |-> "cancelled"]),
                                 ![r].pc = "returned"]
       ELSE /\ runs[r].iteration_count < MaxTurns
            /\ runs' = [runs EXCEPT ![r].iteration_count = @ + 1,
                                    ![r].pc = "exchange"]
  /\ UNCHANGED conc_frame

\* call_claude_api returns in run r
ConcExchange(r) ==
  /\ runs[r].pc = "exchange"
  /\ \E o \in ConcOutcomes(runs[r].iteration_count) :
       LET res == call_claude_api(o)
           logged == [runs EXCEPT ![r].log = Append(@, [kind |-> "outcome", outcome |-> o])]
           pushed == ConcPush(logged, r, Assistant(res.val.content_blocks))
           uses == CollectToolUses(res.val.content_blocks)
       IN IF ~res.ok
            THEN runs' = [logged EXCEPT ![r].result = Some(Err(res.err)),
                                        ![r].pc = "returned"]
          ELSE IF AfterResponse(res.val.stop_reason) = "tools"
            THEN runs' = [pushed EXCEPT ![r].tool_uses = uses,
                                        ![r].pc = IF uses = <<>> THEN "loop_top"
                                                                 ELSE "tools"]
            ELSE runs' = [pushed EXCEPT ![r].result = Some(Ok(pushed[r].message_history)),
                                        ![r].pc = "returned"]
  /\ UNCHANGED conc_frame

\* one pass of the for loop over tool_uses in run r
ConcExecuteTool(r) ==
  /\ runs[r].pc = "tools"
  /\ LET tool_use == Head(runs[r].tool_uses)
         tool_fn == Lookup(agent.val.val.tool_implementations, tool_use.name)
         rest == Tail(runs[r].tool_uses)
     IN IF ~tool_fn.some
          THEN runs' = [runs EXCEPT ![r].result = Some(Err(ToolNotFound(tool_use.name))),
                                    ![r].pc = "returned"]
          ELSE runs' = [ConcPush(runs, r,
                                 ToolResult(tool_use.id,
                                            ResultContent(CallToolFn(tool_fn.val,
                                                                     tool_use.input))))
                          EXCEPT ![r].tool_uses = rest,
                                 ![r].pc = IF rest = <<>> THEN "loop_top" ELSE "tools"]
  /\ UNCHANGED conc_frame

NextConc ==
  \/ \E r \in RunIds : ConcRun(r)
  \/ \E r \in RunIds : ConcCancel(r)
  \/ \E r \in RunIds : ConcLoopTop(r)
  \/ \E r \in RunIds : ConcExchange(r)
  \/ \E r \in RunIds : ConcExecuteTool(r)

SpecConc == InitConc /\ [][NextConc]_vars

\* the for loop over tool_uses executed by a run on its own, from history h
RECURSIVE RunBatchAlone(_, _, _)
RunBatchAlone(a, h, uses) ==
  IF uses = <<>> THEN Ok(h)
  ELSE LET tool_fn == Lookup(a.tool_implementations, Head(uses).name)
       IN IF ~tool_fn.some THEN Err(ToolNotFound(Head(uses).name))
          ELSE RunBatchAlone(a,
                 Append(h, ToolResult(Head(uses).id,
                                      ResultContent(CallToolFn(tool_fn.val,
                                                               Head(uses).input)))),
                 Tail(uses))

\* run executed on its own from history h, given what it observes in order
\* (log): a cancelled token at a loop top, or the outcome of an exchange;
\* None if the log ends before run returns
RECURSIVE RunAlone(_, _, _)
RunAlone(a, h, log) ==
  IF log = <<>> THEN None
  ELSE IF Head(log).kind = "cancelled" THEN Some(Err(Cancelled))
  ELSE LET res == call_claude_api(Head(log).outcome)
           h1 == Append(h, Assistant(res.val.content_blocks))
           batch == RunBatchAlone(a, h1, CollectToolUses(res.val.content_blocks))
       IN IF ~res.ok THEN Some(Err(res.err))
          ELSE IF AfterResponse(res.val.stop_reason) = "break" THEN Some(Ok(h1))
          ELSE IF ~batch.ok THEN Some(Err(batch.err))
          ELSE RunAlone(a, batch.val, Tail(log))

\* ------------------------------------------ crates/tui: model.rs, events.rs
\* A String is a sequence of one-character strings while it is edited and a
\* string once it is stored in a log entry.  A character outside ASCII is
\* written by its code point, {U+1F916} for the robot face.

\* the characters a key may carry
InputChars == {"q", "i", " "}

\* char::is_whitespace over InputChars
IsWhitespace(c) == c = " "

RECURSIVE trim_start(_)
\* str::trim_start: drops the leading whitespace
trim_start(s) ==
  IF s = << >> THEN << >>
  ELSE IF IsWhitespace(Head(s)) THEN trim_start(Tail(s)) ELSE s

RECURSIVE trim_end(_)
\* str::trim_end: drops the trailing whitespace
trim_end(s) ==
  IF s = << >> THEN << >>
  ELSE IF IsWhitespace(s[Len(s)]) THEN trim_end(SubSeq(s, 1, Len(s) - 1)) ELSE s

\* str::trim
trim(s) == trim_end(trim_start(s))

RECURSIVE to_string(_)
\* the String of a sequence of characters
to_string(s) == IF s = << >> THEN "" ELSE Head(s) \o to_string(Tail(s))

\* ExecutionRequest::new (headers, body and response are not modelled: no
\* operation of the Model reads or writes them)
ExecutionRequest(number, method, url) ==
  [number |-> number, method |-> method, url |-> url]

\* LogEntry::new
LogEntry(entry_type, content) ==
  [entry_type |-> entry_type, content |-> content, request_number |-> None]

\* LogEntry::with_request_number
with_request_number(entry, request_number) ==
  [entry EXCEPT !.request_number = Some(request_number)]

\* Model::new
Model_new ==
  [ requests               |-> << >>,
    log_entries            |-> << >>,
    selected_request_index |-> 0,
    input                  |-> << >>,
    input_mode             |-> "Normal",
    running_state          |-> "Running" ]

\* create_dummy_model
create_dummy_model ==
  [ Model_new EXCEPT
      !.log_entries =
        << LogEntry("UserPrompt", "> get all users and update first email"),
           LogEntry("UserPrompt", ""),
           LogEntry("Planning", "{U+1F916} Planning..."),
           LogEntry("Discovery", "{U+2713} Found: GET /api/users"),
           LogEntry("Discovery", "{U+2713} Found: POST /api/users"),
           LogEntry("UserPrompt", ""),
           LogEntry("ExecutionStart", "{U+1F504} Executing:"),
           with_request_number(LogEntry("RequestExec", "[1] GET /api/users"), 1),
           with_request_number(
             LogEntry("RequestResult", "    {U+2713} 200 OK (145ms)"), 1),
           with_request_number(LogEntry("RequestExec", "[2] POST /api/users/1"), 2),
           with_request_number(
             LogEntry("RequestResult", "    {U+2713} 200 OK (89ms)"), 2) >>,
      !.requests =
        << ExecutionRequest(1, "GET", "/api/users"),
           ExecutionRequest(2, "POST", "/api/users/1") >>,
      !.selected_request_index = 1 ]

\* Model::get_selected_request: Vec::get of the selected index
get_selected_request(m) ==
  IF m.selected_request_index < Len(m.requests)
  THEN Some(m.requests[m.selected_request_index + 1])
  ELSE None

\* the values of Message
NavigateUp == [type |-> "NavigateUp"]
NavigateDown == [type |-> "NavigateDown"]
EnterEditMode == [type |-> "EnterEditMode"]
ExitEditMode == [type |-> "ExitEditMode"]
InputChar(c) == [type |-> "InputChar", c |-> c]
DeleteChar == [type |-> "DeleteChar"]
SubmitPrompt == [type |-> "SubmitPrompt"]
Quit == [type |-> "Quit"]

\* the messages update is given
Messages ==
  { NavigateUp, NavigateDown, EnterEditMode, ExitEditMode, DeleteChar,
    SubmitPrompt, Quit } \cup { InputChar(c) : c \in InputChars }

\* submit_prompt mutant: no blank line before the prompt
submit_prompt_without_leading_blank(m, message) ==
  [ m EXCEPT !.log_entries =
      @ \o << LogEntry("UserPrompt", "> " \o message),
              LogEntry("UserPrompt", ""),
              LogEntry("Planning", "{U+1F916} Planning...") >> ]

\* submit_prompt: a blank line, the prompt, a blank line, the planning status
submit_prompt(m, message) ==
  [ m EXCEPT !.log_entries =
      @ \o << LogEntry("UserPrompt", ""),
              LogEntry("UserPrompt", "> " \o message),
              LogEntry("UserPrompt", ""),
              LogEntry("Planning", "{U+1F916} Planning...") >> ]

\* update mutant: NavigateDown moves past the last request
update_down_unguarded(m, msg) ==
  CASE msg.type = "NavigateUp" ->
         IF m.selected_request_index > 0
         THEN [m EXCEPT !.selected_request_index = @ - 1]
         ELSE m
    [] msg.type = "NavigateDown" ->
         IF m.requests # << >>
         THEN [m EXCEPT !.selected_request_index = @ + 1]
         ELSE m
    [] msg.type = "EnterEditMode" -> [m EXCEPT !.input_mode = "Editing"]
    [] msg.type = "ExitEditMode" -> [m EXCEPT !.input_mode = "Normal"]
    [] msg.type = "InputChar" -> [m EXCEPT !.input = Append(@, msg.c)]
    [] msg.type = "DeleteChar" ->
         [m EXCEPT !.input = IF @ = << >> THEN @ ELSE SubSeq(@, 1, Len(@) - 1)]
    [] msg.type = "SubmitPrompt" ->
         LET message == to_string(trim(m.input))
             logged == IF message # "" THEN submit_prompt(m, message) ELSE m
         IN [logged EXCEPT !.input = << >>, !.input_mode = "Normal"]
    [] msg.type = "Quit" -> [m EXCEPT !.running_state = "Done"]

\* update mutant: EnterEditMode sets the running state back to Running
update_enter_edit_restarts(m, msg) ==
  CASE msg.type = "NavigateUp" ->
         IF m.selected_request_index > 0
         THEN [m EXCEPT !.selected_request_index = @ - 1]
         ELSE m
    [] msg.type = "NavigateDown" ->
         IF m.requests # << >> /\ m.selected_request_index < Len(m.requests) - 1
         THEN [m EXCEPT !.selected_request_index = @ + 1]
         ELSE m
    [] msg.type = "EnterEditMode" ->
         [m EXCEPT !.input_mode = "Editing", !.running_state = "Running"]
    [] msg.type = "ExitEditMode" -> [m EXCEPT !.input_mode = "Normal"]
    [] msg.type = "InputChar" -> [m EXCEPT !.input = Append(@, msg.c)]
    [] msg.type = "DeleteChar" ->
         [m EXCEPT !.input = IF @ = << >> THEN @ ELSE SubSeq(@, 1, Len(@) - 1)]
    [] msg.type = "SubmitPrompt" ->
         LET message == to_string(trim(m.input))
             logged == IF message # "" THEN submit_prompt(m, message) ELSE m
         IN [logged EXCEPT !.input = << >>, !.input_mode = "Normal"]
    [] msg.type = "Quit" -> [m EXCEPT !.running_state = "Done"]

\* update mutant: ExitEditMode throws the typed input away
update_exit_clears_input(m, msg) ==
  CASE msg.type = "NavigateUp" ->
         IF m.selected_request_index > 0
         THEN [m EXCEPT !.selected_request_index = @ - 1]
         ELSE m
    [] msg.type = "NavigateDown" ->
         IF m.requests # << >> /\ m.selected_request_index < Len(m.requests) - 1
         THEN [m EXCEPT !.selected_request_index = @ + 1]
         ELSE m
    [] msg.type = "EnterEditMode" -> [m EXCEPT !.input_mode = "Editing"]
    [] msg.type = "ExitEditMode" -> [m EXCEPT !.input_mode = "Normal", !.input = << >>]
    [] msg.type = "InputChar" -> [m EXCEPT !.input = Append(@, msg.c)]
    [] msg.type = "DeleteChar" ->
         [m EXCEPT !.input = IF @ = << >> THEN @ ELSE SubSeq(@, 1, Len(@) - 1)]
    [] msg.type = "SubmitPrompt" ->
         LET message == to_string(trim(m.input))
             logged == IF message # "" THEN submit_prompt(m, message) ELSE m
         IN [logged EXCEPT !.input = << >>, !.input_mode = "Normal"]
    [] msg.type = "Quit" -> [m EXCEPT !.running_state = "Done"]

\* update: the new Model for one message
update(m, msg) ==
  CASE msg.type = "NavigateUp" ->
         IF m.selected_request_index > 0
         THEN [m EXCEPT !.selected_request_index = @ - 1]
         ELSE m
    [] msg.type = "NavigateDown" ->
         IF m.requests # << >> /\ m.selected_request_index < Len(m.requests) - 1
         THEN [m EXCEPT !.selected_request_index = @ + 1]
         ELSE m
    [] msg.type = "EnterEditMode" -> [m EXCEPT !.input_mode = "Editing"]
    [] msg.type = "ExitEditMode" -> [m EXCEPT !.input_mode = "Normal"]
    [] msg.type = "InputChar" -> [m EXCEPT !.input = Append(@, msg.c)]
    [] msg.type = "DeleteChar" ->
         [m EXCEPT !.input = IF @ = << >> THEN @ ELSE SubSeq(@, 1, Len(@) - 1)]
    [] msg.type = "SubmitPrompt" ->
         LET message == to_string(trim(m.input))
             logged == IF message # "" THEN submit_prompt(m, message) ELSE m
         IN [logged EXCEPT !.input = << >>, !.input_mode = "Normal"]
    [] msg.type = "Quit" -> [m EXCEPT !.running_state = "Done"]

\* the values of KeyCode the handlers tell apart, and Tab for every other one
Char(c) == [kind |-> "Char", c |-> c]
KeyCodes ==
  { Char(c) : c \in InputChars }
    \cup { [kind |-> k] : k \in {"Up", "Down", "Enter", "Backspace", "Esc", "Tab"} }

\* KeyEvent::new(code, modifiers) and the key presses of the model
KeyEvent(code, modifiers) == [code |-> code, modifiers |-> modifiers]
KeyEvents == { KeyEvent(code, mods) : code \in KeyCodes, mods \in {"NONE", "CONTROL"} }

\* events.rs handle_normal_mode: matches on key.code alone
handle_normal_mode(key) ==
  CASE key.code = Char("q") -> Some(Quit)
    [] key.code = Char("i") -> Some(EnterEditMode)
    [] key.code.kind = "Up" -> Some(NavigateUp)
    [] key.code.kind = "Down" -> Some(NavigateDown)
    [] OTHER -> None

\* handle_editing_mode mutant: q quits while editing
handle_editing_mode_q_quits(key) ==
  CASE key.code.kind = "Enter" -> Some(SubmitPrompt)
    [] key.code = Char("q") -> Some(Quit)
    [] key.code.kind = "Char" /\ key.code # Char("q") -> Some(InputChar(key.code.c))
    [] key.code.kind = "Backspace" -> Some(DeleteChar)
    [] key.code.kind = "Esc" -> Some(ExitEditMode)
    [] OTHER -> None

\* events.rs handle_editing_mode
handle_editing_mode(key) ==
  CASE key.code.kind = "Enter" -> Some(SubmitPrompt)
    [] key.code.kind = "Char" -> Some(InputChar(key.code.c))
    [] key.code.kind = "Backspace" -> Some(DeleteChar)
    [] key.code.kind = "Esc" -> Some(ExitEditMode)
    [] OTHER -> None

\* handle_key: the message of a key press in the given input mode
handle_key(key, input_mode) ==
  IF input_mode = "Normal" THEN handle_normal_mode(key) ELSE handle_editing_mode(key)

\* the number of prompts submitted so far: four entries each, after the
\* eleven of the dummy data when the log starts with them
Submitted(log) ==
  IF log # << >> /\ log[1] = create_dummy_model.log_entries[1]
  THEN (Len(log) - Len(create_dummy_model.log_entries)) \div 4
  ELSE Len(log) \div 4

\* the bounds of the model let the message be applied
WithinBounds(m, msg) ==
  /\ msg.type = "InputChar" => Len(m.input) < MaxInput
  /\ (msg.type = "SubmitPrompt" /\ trim(m.input) # << >>) =>
       Submitted(m.log_entries) < MaxPrompts

\* ---- update driven by messages
other_vars ==
  << env, pc, agent, cancel_token, cancel_pc, message_history, iteration_count,
     request, outcome, content_blocks, stop_reason, tool_uses, tool_calls, result,
     prompt, dispatch_vars, conc_vars >>

InitUpdate ==
  /\ env = [kind |-> "unset"]
  /\ MainIdle
  /\ DispatchIdle
  /\ ConcIdle
  /\ model \in {Model_new, create_dummy_model}
  /\ app = None
  /\ counter = None

\* update(&mut model, msg)
Update(msg) ==
  /\ model # None
  /\ WithinBounds(model, msg)
  /\ model' = update(model, msg)
  /\ UNCHANGED << other_vars, app, counter >>

NextUpdate == \E msg \in Messages : Update(msg)

SpecUpdate == InitUpdate /\ [][NextUpdate]_vars

\* ---------------------------------------------- crates/tui: lib.rs (App)
\* App::new
App_new ==
  [ requests               |-> << >>,
    log_entries            |-> << >>,
    selected_request_index |-> 0,
    input                  |-> << >>,
    input_mode             |-> "Normal",
    should_quit            |-> FALSE ]

\* App::with_dummy_data: the literals of lib.rs hold the characters
\* U+00F0 U+0178 U+00A4 U+2013 where model.rs holds U+1F916, and likewise for
\* the check mark and the arrows
App_with_dummy_data(a) ==
  [ a EXCEPT
      !.log_entries =
        @ \o
        << LogEntry("UserPrompt", "> get all users and update first email"),
           LogEntry("UserPrompt", ""),
           LogEntry("Planning", "{U+00F0}{U+0178}{U+00A4}{U+2013} Planning..."),
           LogEntry("Discovery", "{U+00E2}{U+0153}{U+201C} Found: GET /api/users"),
           LogEntry("Discovery", "{U+00E2}{U+0153}{U+201C} Found: POST /api/users"),
           LogEntry("UserPrompt", ""),
           LogEntry("ExecutionStart", "{U+00F0}{U+0178}{U+201D}{U+201E} Executing:"),
           with_request_number(LogEntry("RequestExec", "[1] GET /api/users"), 1),
           with_request_number(
             LogEntry("RequestResult", "    {U+00E2}{U+0153}{U+201C} 200 OK (145ms)"), 1),
           with_request_number(LogEntry("RequestExec", "[2] POST /api/users/1"), 2),
           with_request_number(
             LogEntry("RequestResult", "    {U+00E2}{U+0153}{U+201C} 200 OK (89ms)"), 2) >>,
      !.requests =
        @ \o << ExecutionRequest(1, "GET", "/api/users"),
                ExecutionRequest(2, "POST", "/api/users/1") >>,
      !.selected_request_index = 1 ]

\* App::submit_prompt
App_submit_prompt(a, message) ==
  [ a EXCEPT !.log_entries =
      @ \o << LogEntry("UserPrompt", ""),
              LogEntry("UserPrompt", "> " \o message),
              LogEntry("UserPrompt", ""),
              LogEntry("Planning", "{U+00F0}{U+0178}{U+00A4}{U+2013} Planning...") >> ]

\* App::handle_normal_mode: matches on (key.code, key.modifiers)
App_handle_normal_mode(a, k) ==
  CASE k.code = Char("q") /\ k.modifiers = "NONE" -> [a EXCEPT !.should_quit = TRUE]
    [] k.code = Char("i") /\ k.modifiers = "NONE" -> [a EXCEPT !.input_mode = "Editing"]
    [] k.code.kind = "Up" /\ k.modifiers = "NONE" ->
         IF a.selected_request_index > 0
         THEN [a EXCEPT !.selected_request_index = @ - 1]
         ELSE a
    [] k.code.kind = "Down" /\ k.modifiers = "NONE" ->
         IF a.requests # << >> /\ a.selected_request_index < Len(a.requests) - 1
         THEN [a EXCEPT !.selected_request_index = @ + 1]
         ELSE a
    [] OTHER -> a

\* App::handle_editing_mode: matches on key.code alone
App_handle_editing_mode(a, k) ==
  CASE k.code.kind = "Enter" ->
         LET message == to_string(trim(a.input))
             logged == IF message # "" THEN App_submit_prompt(a, message) ELSE a
         IN [logged EXCEPT !.input = << >>, !.input_mode = "Normal"]
    [] k.code.kind = "Char" -> [a EXCEPT !.input = Append(@, k.code.c)]
    [] k.code.kind = "Backspace" ->
         [a EXCEPT !.input = IF @ = << >> THEN @ ELSE SubSeq(@, 1, Len(@) - 1)]
    [] k.code.kind = "Esc" -> [a EXCEPT !.input_mode = "Normal"]
    [] OTHER -> a

\* App::handle_key_event
App_handle_key_event(a, k) ==
  IF a.input_mode = "Normal"
  THEN App_handle_normal_mode(a, k)
  ELSE App_handle_editing_mode(a, k)

\* ---- the Model driven by key presses
\* the Model after a key press: handle_key, then update with its message
KeyPressed(m, k) ==
  LET msg == handle_key(k, m.input_mode)
  IN IF msg.some THEN update(m, msg.val) ELSE m

\* the bounds of the model let the key be handled by the Model
KeyWithinBounds(m, k) ==
  handle_key(k, m.input_mode).some => WithinBounds(m, handle_key(k, m.input_mode).val)

InitKeys ==
  /\ env = [kind |-> "unset"]
  /\ MainIdle
  /\ DispatchIdle
  /\ ConcIdle
  /\ model \in {Model_new, create_dummy_model}
  /\ app = None
  /\ counter = None

\* one key press read and handled: handle_key, then update
KeyPress(k) ==
  /\ model # None
  /\ app = None
  /\ KeyWithinBounds(model, k)
  /\ model' = KeyPressed(model, k)
  /\ UNCHANGED << other_vars, app, counter >>

NextKeys == \E k \in KeyEvents : KeyPress(k)

SpecKeys == InitKeys /\ [][NextKeys]_vars

\* ---- the Model and the App fed the same key presses
\* the two are in step: the same selection, input, mode and quit flag (the
\* comparison of two implementations goes on only while they are)
InStep(m, a) ==
  /\ m.selected_request_index = a.selected_request_index
  /\ m.input = a.input
  /\ m.input_mode = a.input_mode
  /\ (m.running_state = "Done") = a.should_quit

InitPair ==
  /\ env = [kind |-> "unset"]
  /\ MainIdle
  /\ DispatchIdle
  /\ ConcIdle
  /\ \/ model = Model_new /\ app = App_new
     \/ model = create_dummy_model /\ app = App_with_dummy_data(App_new)
  /\ counter = None

\* one key press handled by the Model and by the App
PairKeyPress(k) ==
  /\ model # None
  /\ app # None
  /\ InStep(model, app)
  /\ KeyWithinBounds(model, k)
  /\ model' = KeyPressed(model, k)
  /\ app' = App_handle_key_event(app, k)
  /\ UNCHANGED << other_vars, counter >>

NextPair == \E k \in KeyEvents : PairKeyPress(k)

SpecPair == InitPair /\ [][NextPair]_vars

\* ------------------------------------ crates/tui: components/counter.rs
\* A u32 is held as its two 16-bit halves, value = hi * 2^16 + lo, so that its
\* whole range fits the integers of the model checker.
Half == 65536

\* the u32 of a small number, and u32::MAX
U32(n) == [hi |-> 0, lo |-> n]
U32_MAX == [hi |-> Half - 1, lo |-> Half - 1]

\* Counter::default: state 0
Counter_default == U32(0)

\* self.state += 1: the sum below u32::MAX; at u32::MAX the addition
\* overflows, which panics in a build with overflow checks and wraps to 0 in
\* one without
increment(state) ==
  IF state = U32_MAX THEN { Err("attempt to add with overflow"), Ok(U32(0)) }
  ELSE IF state.lo < Half - 1 THEN { Ok([state EXCEPT !.lo = @ + 1]) }
  ELSE { Ok([hi |-> state.hi + 1, lo |-> 0]) }

\* decrement mutant: subtracts without the test for 0
decrement_unguarded(state) ==
  IF state = U32(0) THEN { Err("attempt to subtract with overflow"), Ok(U32_MAX) }
  ELSE IF state.lo > 0 THEN { Ok([state EXCEPT !.lo = @ - 1]) }
  ELSE { Ok([hi |-> state.hi - 1, lo |-> Half - 1]) }

\* Counter::decrement: if self.state > 0 { self.state -= 1 }
decrement(state) ==
  IF state = U32(0) THEN { Ok(state) }
  ELSE IF state.lo > 0 THEN { Ok([state EXCEPT !.lo = @ - 1]) }
  ELSE { Ok([hi |-> state.hi - 1, lo |-> Half - 1]) }

\* the keys given to the Counter: the four it matches and two others
CounterKeys ==
  { Char("j"), Char("k"), Char("q"), [kind |-> "Up"], [kind |-> "Down"],
    [kind |-> "Enter"] }

\* Counter::on_key_pressed: Ok of the state it leaves, or Err of a panic
on_key_pressed(state, k) ==
  CASE k.kind = "Up" \/ k = Char("j") -> increment(state)
    [] k.kind = "Down" \/ k = Char("k") -> decrement(state)
    [] OTHER -> { Ok(state) }

\* a Counter with the keys it was given so far: the state it started from,
\* how many keys, whether all of them were j, and whether it panicked
CounterAt(start) ==
  [state |-> start, start |-> start, presses |-> 0, all_j |-> TRUE, panicked |-> FALSE]

InitCounter ==
  /\ env = [kind |-> "unset"]
  /\ MainIdle
  /\ DispatchIdle
  /\ ConcIdle
  /\ model = None
  /\ app = None
  /\ counter \in { CounterAt(Counter_default),
                   CounterAt([hi |-> 0, lo |-> Half - 2]),
                   CounterAt([U32_MAX EXCEPT !.lo = @ - 2]) }

\* counter.on_key_pressed(key)
CounterKey(k) ==
  /\ counter # None
  /\ ~counter.panicked
  /\ counter.presses < MaxKeys
  /\ \E o \in on_key_pressed(counter.state, k) :
       counter' =
         [ counter EXCEPT
             !.state = IF o.ok THEN o.val ELSE @,
             !.panicked = ~o.ok,
             !.presses = @ + 1,
             !.all_j = @ /\ k = Char("j") ]
  /\ UNCHANGED << other_vars, model, app >>

NextCounter == \E k \in CounterKeys : CounterKey(k)

SpecCounter == InitCounter /\ [][NextCounter]_vars

\* =================================================================
\* Properties
\* =================================================================

\* the kind of the error run returned ("" while running or on Ok)
ReturnedErrKind ==
  IF result.some /\ ~result.val.ok THEN result.val.err.kind ELSE ""

\* the messages run handed to its caller (none while running or on Err)
Delivered == IF result.some /\ result.val.ok THEN result.val.val ELSE <<>>

\* the last element of a non-empty sequence
Last(s) == s[Len(s)]

\* the ToolUse blocks of a content-block sequence, in order
InvocationsOf(blocks) == SelectSeq(blocks, LAMBDA b : b.type = "ToolUse")

\* index of the last Assistant message of h (0 if there is none)
LastAssistantIndex(h) ==
  CHOOSE k \in 0..Len(h) :
    /\ k > 0 => h[k].type = "Assistant"
    /\ \A j \in (k + 1)..Len(h) : h[j].type # "Assistant"

\* the messages of h after its last Assistant message
AfterLastAssistant(h) == SubSeq(h, LastAssistantIndex(h) + 1, Len(h))

\* number of messages of h of the given type
CountType(h, type) == Cardinality({ j \in 1..Len(h) : h[j].type = type })

\* h ends with its last Assistant message followed by exactly one ToolResult
\* per ToolUse block of that message, with the same ids in the same order
BatchAnswered(h) ==
  LET k == LastAssistantIndex(h)
      uses == IF k = 0 THEN <<>> ELSE InvocationsOf(h[k].content)
  IN /\ k > 0
     /\ Len(h) = k + Len(uses)
     /\ \A i \in 1..Len(uses) :
          /\ h[k + i].type = "ToolResult"
          /\ h[k + i].tool_use_id = uses[i].id

\* why the exchange described by outcome o fails ("none" if it succeeds)
FailureCause(o) ==
  IF o.send = "fail" THEN "transport"
  ELSE IF o.status < 200 \/ o.status > 299 THEN "status"
  ELSE IF o.body.kind # "json" THEN "body"
  ELSE IF \E i \in 1..Len(o.body.content) :
            o.body.content[i].type \notin {"text", "tool_use"} THEN "body"
  ELSE "none"

\* C1: a response with stop reason "end_turn" makes run return Ok with the
\* whole history; its last message is the Assistant message built from that
\* response and no ToolResult follows it.
C1_EndTurnReturnsHistory ==
  stop_reason = "end_turn" =>
    /\ pc = "returned"
    /\ result = Some(Ok(message_history))
    /\ Len(content_blocks) = Len(outcome.val.body.content)
    /\ Last(Delivered) = Assistant(content_blocks)
    /\ CountType(Delivered, "Assistant") = iteration_count

\* C1 witness: end_turn answers the second exchange, after a tool round
C1_Witness ==
  /\ pc = "returned"
  /\ stop_reason = "end_turn"
  /\ iteration_count = 2
  /\ Len(Delivered) = 4
  /\ Delivered[3].type = "ToolResult"

\* C2: when a tool_use response holds N ToolUse blocks, exactly N ToolResult
\* messages follow its Assistant message, the i-th with the id of the i-th
\* block, and they are all in the history the next exchange is issued with.
C2_BatchAnsweredBeforeNextExchange ==
  (pc \in {"loop_top", "exchange"} /\ stop_reason = "tool_use") =>
    /\ BatchAnswered(message_history)
    /\ Len(AfterLastAssistant(message_history)) = Len(InvocationsOf(content_blocks))
    /\ pc = "exchange" => Len(request.val.messages) = Len(message_history)

\* C2 witness: the second exchange is in flight after a batch of two
C2_Witness ==
  /\ pc = "exchange"
  /\ iteration_count = 2
  /\ Len(InvocationsOf(content_blocks)) = 2
  /\ Len(request.val.messages) = 4

\* C3: with the token cancelled before run is called, run returns
\* Err(Cancelled) having issued no exchange and called no tool.
C3_CancelledBeforeRun ==
  (cancel_pc = "ready" /\ pc # "ready") =>
    /\ pc \in {"loop_top", "returned"}
    /\ iteration_count = 0
    /\ request = None
    /\ outcome = None
    /\ tool_calls = 0
    /\ pc = "loop_top" => ENABLED CheckCancelled /\ ~ENABLED IssueExchange
    /\ pc = "returned" => result = Some(Err(Cancelled))

\* C3 witness: a run called with a cancelled token has returned
C3_Witness ==
  /\ pc = "returned"
  /\ cancel_pc = "ready"
  /\ result = Some(Err(Cancelled))

\* C4 as stated: on ToolNotFound the ToolResult messages appended earlier in
\* the batch are part of what run returns to the caller.
C4_Original_PartialStateReturned ==
  ReturnedErrKind = "ToolNotFound" =>
    \A j \in 1..Len(message_history) :
      message_history[j].type = "ToolResult" =>
        \E d \in 1..Len(Delivered) : Delivered[d] = message_history[j]

\* C4 amended: on a missing tool run returns Err(ToolNotFound(name)) for the
\* name of the failing invocation; the ToolResult messages of the invocations
\* before it stay in run's history (no rollback), but the caller is handed
\* the error only, no message.
C4_ToolNotFoundKeepsLocalResults ==
  ReturnedErrKind = "ToolNotFound" =>
    LET k == LastAssistantIndex(message_history)
        uses == InvocationsOf(message_history[k].content)
        done == Len(uses) - Len(tool_uses)
    IN /\ tool_uses # <<>>
       /\ result.val.err = ToolNotFound(uses[done + 1].name)
       /\ uses[done + 1].name \notin DOMAIN agent.val.val.tool_implementations
       /\ Len(message_history) = k + done
       /\ \A i \in 1..done :
            /\ message_history[k + i].type = "ToolResult"
            /\ message_history[k + i].tool_use_id = uses[i].id
       /\ Delivered = <<>>

\* C4 witness: the second invocation of a batch names a missing tool
C4_Witness ==
  /\ ReturnedErrKind = "ToolNotFound"
  /\ Len(message_history) = 3
  /\ message_history[3].type = "ToolResult"

C6_CancelledAtLoopTop ==
  [][ (pc = "loop_top" /\ cancel_token) =>
        /\ pc' = "returned"
        /\ result' = Some(Err(Cancelled))
        /\ iteration_count' = iteration_count
        /\ request' = request
        /\ message_history' = message_history
        /\ tool_calls' = tool_calls ]_vars

\* C6 witness: Cancelled is returned at the loop top after a finished batch
C6_Witness ==
  /\ pc = "returned"
  /\ result = Some(Err(Cancelled))
  /\ iteration_count = 1
  /\ tool_calls = 2
  /\ cancel_pc = "loop_top"

\* C7: a token cancelled during a tool batch does not stop the batch: each
\* remaining invocation is still looked up and, if registered, called and its
\* ToolResult appended; Err(Cancelled) is returned from the loop top only.
C7_CancelDoesNotPreemptBatch ==
  [][ /\ (pc = "tools" /\ cancel_token) =>
           IF Head(tool_uses).name \in DOMAIN agent.val.val.tool_implementations
             THEN /\ Len(message_history') = Len(message_history) + 1
                  /\ Last(message_history').type = "ToolResult"
                  /\ Last(message_history').tool_use_id = Head(tool_uses).id
                  /\ tool_calls' = tool_calls + 1
                  /\ tool_uses' = Tail(tool_uses)
                  /\ result' = None
             ELSE result' = Some(Err(ToolNotFound(Head(tool_uses).name)))
      /\ (result = None /\ result' = Some(Err(Cancelled))) =>
           /\ pc = "loop_top"
           /\ iteration_count > 0 /\ stop_reason = "tool_use"
                => BatchAnswered(message_history) ]_vars

\* C7 witness: cancelled inside a batch of two, both results are in the
\* history when Cancelled is returned
C7_Witness ==
  /\ pc = "returned"
  /\ result = Some(Err(Cancelled))
  /\ cancel_pc = "tools"
  /\ Len(InvocationsOf(content_blocks)) = 2
  /\ Len(AfterLastAssistant(message_history)) = 2
  /\ tool_calls = 2

\* C8: a failed exchange makes run return the exchange's error at once: no
\* Assistant message is appended for it, nothing is appended or executed
\* after the request was built, and the exchange is attempted once.
C8_ExchangeFailureIsTerminal ==
  (outcome.some /\ FailureCause(outcome.val) # "none") =>
    /\ pc = "returned"
    /\ ReturnedErrKind \in {"ApiError", "ParseError"}
    /\ CountType(message_history, "Assistant") = iteration_count - 1
    /\ Len(request.val.messages) = Len(message_history)
    /\ tool_calls = CountType(message_history, "ToolResult")
    /\ tool_uses = <<>>

\* C8 witness: the second exchange fails after a tool batch
C8_Witness ==
  /\ pc = "returned"
  /\ outcome.some /\ FailureCause(outcome.val) = "status"
  /\ iteration_count = 2
  /\ tool_calls = 1

C11_OtherStopReasonEndsRun ==
  stop_reason \notin {"", "end_turn", "tool_use"} =>
    /\ pc = "returned"
    /\ result = Some(Ok(message_history))
    /\ Last(message_history) = Assistant(content_blocks)
    /\ CountType(message_history, "Assistant") = iteration_count
    /\ CountType(message_history, "ToolResult") = tool_calls
    /\ request.val.messages =
         messages_to_api_format(SubSeq(message_history, 1, Len(message_history) - 1))

\* C11 witness: a "max_tokens" reply that asks for a tool ended the run
C11_Witness ==
  /\ pc = "returned"
  /\ stop_reason = "max_tokens"
  /\ InvocationsOf(content_blocks) # <<>>
  /\ result = Some(Ok(message_history))

\* C12: when the invoked tool is registered, its Ok text t becomes the
\* ToolResult content exactly and its Err text m becomes "Error: " followed
\* by m; the ToolResult carries the invocation's id and is appended, and the
\* run goes on with the next invocation or, after the last, the loop top.
C12_ToolOutcomeBecomesResult ==
  [][ ( /\ pc = "tools"
        /\ Head(tool_uses).name \in DOMAIN agent.val.val.tool_implementations
        /\ << pc, message_history, tool_uses, result >>' #
             << pc, message_history, tool_uses, result >> )
      => LET tool_use == Head(tool_uses)
             r == CallToolFn(agent.val.val.tool_implementations[tool_use.name],
                             tool_use.input)
         IN /\ message_history' =
                 Append(message_history,
                        ToolResult(tool_use.id,
                                   IF r.ok THEN r.val ELSE "Error: " \o r.err))
            /\ result' = None
            /\ tool_uses' = Tail(tool_uses)
            /\ pc' = IF Len(tool_uses) = 1 THEN "loop_top" ELSE "tools" ]_vars

\* C12 witness: a tool reported an error and the next exchange was issued
C12_Witness ==
  /\ pc = "exchange"
  /\ iteration_count = 2
  /\ \E j \in 1..Len(message_history) :
       /\ message_history[j].type = "ToolResult"
       /\ message_history[j].content = "Error: Missing location parameter"

\* C13: when the k-th invocation of a reply names a tool without an
\* implementation, run returns ToolNotFound with that name; the first k-1
\* invocations were executed in order and their results stay in the local
\* history, no later invocation is executed, no further exchange is issued.
C13_MissingToolStopsBatch ==
  ReturnedErrKind = "ToolNotFound" =>
    LET h == message_history
        a == LastAssistantIndex(h)
        uses == InvocationsOf(h[a].content)
        impls == agent.val.val.tool_implementations
        missing == { i \in 1..Len(uses) : uses[i].name \notin DOMAIN impls }
        k == CHOOSE i \in missing : \A j \in missing : i <= j
    IN /\ a > 0
       /\ missing # {}
       /\ result.val.err = ToolNotFound(uses[k].name)
       /\ Len(h) = a + k - 1
       /\ \A i \in 1..(k - 1) :
            h[a + i] = ToolResult(uses[i].id,
                                  ResultContent(CallToolFn(impls[uses[i].name],
                                                           uses[i].input)))
       /\ tool_calls = CountType(h, "ToolResult")
       /\ iteration_count = CountType(h, "Assistant")
       /\ Len(request.val.messages) = a - 1

\* C13 witness: the second invocation of a reply named a missing tool after
\* the first one had been executed
C13_Witness ==
  /\ ReturnedErrKind = "ToolNotFound"
  /\ Len(AfterLastAssistant(message_history)) = 1
  /\ Last(message_history).type = "ToolResult"

\* the roles of the wire messages of the request in flight, in order
WireRoles == [i \in 1..Len(request.val.messages) |-> request.val.messages[i].role]

\* C14 as stated: in the request of every exchange no two consecutive wire
\* messages have the same role, whatever history the run has built.
C14_Original_RolesAlternate ==
  pc = "exchange" =>
    \A i \in 1..(Len(WireRoles) - 1) : WireRoles[i] # WireRoles[i + 1]

\* C15: the history of a run is append-only: on every step the history
\* before the step is a prefix of the history after it.
C15_HistoryAppendOnly ==
  [][ /\ Len(message_history) <= Len(message_history')
      /\ SubSeq(message_history', 1, Len(message_history)) = message_history ]_vars

\* C15 witness: the history has grown by a tool result while the batch is
\* still being executed
C15_Witness ==
  /\ pc = "tools"
  /\ Len(message_history) = 3
  /\ message_history[3].type = "ToolResult"

\* C16: once run has started, the history is non-empty, its first message
\* is the User message holding the caller's prompt, and no other message of
\* the history is a User message.
C16_PromptIsOnlyUserMessage ==
  pc \in {"loop_top", "exchange", "tools", "returned"} =>
    /\ Len(message_history) >= 1
    /\ prompt \in Prompts
    /\ message_history[1] = User(prompt)
    /\ \A j \in 2..Len(message_history) : message_history[j].type # "User"

\* C16 witness: a run that went through a tool batch and a second reply
C16_Witness ==
  /\ pc = "returned"
  /\ result = Some(Ok(message_history))
  /\ Len(message_history) >= 4
  /\ message_history[1] = User(prompt)

\* C17: a ToolUse block (id, name, input) encoded to its wire item and
\* decoded back is a ToolUse block with the same id, name and input.
C17_ToolUseRoundTrip ==
  pc = "exchange" =>
    \A i \in 1..Len(message_history) :
      message_history[i].type = "Assistant" =>
        \A j \in 1..Len(message_history[i].content) :
          LET block == message_history[i].content[j]
              item == request.val.messages[i].content[j]
              decoded == DecodeApiContentBlock(item)
          IN block.type = "ToolUse" =>
               /\ decoded.ok
               /\ FromApiContentBlock(decoded.val).type = "ToolUse"
               /\ FromApiContentBlock(decoded.val).id = block.id
               /\ FromApiContentBlock(decoded.val).name = block.name
               /\ FromApiContentBlock(decoded.val).input = block.input

\* C17 witness: a request carries the wire item of a ToolUse block whose
\* input is a non-empty object
C17_Witness ==
  /\ pc = "exchange"
  /\ \E i \in 1..Len(message_history) :
       /\ message_history[i].type = "Assistant"
       /\ \E j \in 1..Len(message_history[i].content) :
            /\ message_history[i].content[j].type = "ToolUse"
            /\ message_history[i].content[j].input = JObj({<<"location", JStr("X")>>})
            /\ request.val.messages[i].content[j].type = "tool_use"

\* C18: the request holds exactly one wire message per history message, in
\* order: User gives role "user" with the plain text, Assistant gives role
\* "assistant" with one item per block in block order, ToolResult gives
\* role "user" with a single tool_result item of the same id and content.
C18_OneWireMessagePerMessage ==
  pc = "exchange" =>
    LET w == request.val.messages
        h == message_history
    IN /\ Len(w) = Len(h)
       /\ \A i \in 1..Len(h) :
            CASE h[i].type = "User" ->
                   w[i] = [role |-> "user", content |-> JStr(h[i].content)]
              [] h[i].type = "Assistant" ->
                   /\ w[i].role = "assistant"
                   /\ Len(w[i].content) = Len(h[i].content)
                   /\ \A j \in 1..Len(h[i].content) :
                        LET block == h[i].content[j]
                        IN w[i].content[j] =
                             IF block.type = "Text"
                               THEN [type |-> "text", text |-> block.text]
                               ELSE [type |-> "tool_use", id |-> block.id,
                                     name |-> block.name, input |-> block.input]
              [] h[i].type = "ToolResult" ->
                   w[i] = [role |-> "user",
                           content |-> << [type |-> "tool_result",
                                           tool_use_id |-> h[i].tool_use_id,
                                           content |-> h[i].content] >>]

\* C18 witness: a request built from a history holding a User message, an
\* Assistant message with a text and a tool invocation, and a ToolResult
C18_Witness ==
  /\ pc = "exchange"
  /\ Len(message_history) = 3
  /\ Len(request.val.messages) = 3
  /\ Len(message_history[2].content) = 2
  /\ message_history[3].type = "ToolResult"

\* the names create_dummy_tools registers
RegisteredNames == {"get_weather", "get_time", "calculate"}

\* C19: an invocation reaches a capability only if its name equals a
\* registered name character for character, and then the capability
\* registered under that very name; a name that differs from a registered
\* one in letter case, or is a prefix or an extension of one, gives
\* ToolNotFound carrying the requested name.
C19_LookupByExactName ==
  d_result.some =>
    LET name == d_tool_use.name
    IN /\ d_result.val.ok <=> name \in DOMAIN d_impls
       /\ d_result.val.ok =>
            d_result.val.val =
              ToolResult(d_tool_use.id,
                         ResultContent(CallToolFn(d_impls[name], d_tool_use.input)))
       /\ name \in DispatchNames \ RegisteredNames =>
            d_result.val = Err(ToolNotFound(name))

\* C19 witness: with the three tools registered, "Get_Weather" was
\* dispatched and not found
C19_Witness ==
  /\ DOMAIN d_impls = RegisteredNames
  /\ d_tool_use.name = "Get_Weather"
  /\ d_result = Some(Err(ToolNotFound("Get_Weather")))

\* the tool names an agent advertises to the backend
AdvertisedNames(a) == { a.tools[i].name : i \in 1..Len(a.tools) }

\* C20 as stated: for every Agent returned by new the advertised names are
\* the names with a registered capability, so a run never ends with
\* ToolNotFound for an advertised name.
C20_Original_AdvertisedEqualsRegistered ==
  (agent.some /\ agent.val.ok) =>
    /\ AdvertisedNames(agent.val.val) = DOMAIN agent.val.val.tool_implementations
    /\ ReturnedErrKind = "ToolNotFound" =>
         result.val.err.msg \notin AdvertisedNames(agent.val.val)

\* C21: whatever the interleaving of two runs on one Agent, what a run
\* returns is what the same run returns when executed alone with the same
\* prompt, the same replies and the same cancellation, and a returned
\* history starts with the run's own prompt and holds no other prompt.
C21_RunsAreIndependent ==
  \A r \in DOMAIN runs :
    /\ runs[r].pc = "returned" =>
         /\ runs[r].result = RunAlone(agent.val.val, << User(PromptOf(r)) >>, runs[r].log)
         /\ runs[r].result.val.ok =>
              /\ runs[r].result.val.val = runs[r].message_history
              /\ runs[r].result.val.val[1] = User(PromptOf(r))
              /\ \A j \in 2..Len(runs[r].result.val.val) :
                   runs[r].result.val.val[j].type # "User"
    /\ runs[r].pc # "returned" => runs[r].result = None

\* C21 witness: both runs on the Agent have returned a history that holds
\* a tool result
C21_Witness ==
  /\ DOMAIN runs = RunIds
  /\ \A r \in RunIds :
       /\ runs[r].pc = "returned"
       /\ runs[r].result.val.ok
       /\ Len(runs[r].result.val.val) = 4
       /\ runs[r].result.val.val[3].type = "ToolResult"

\* the run is under way
Started == pc \in {"loop_top", "exchange", "tools"}

\* the run is at a loop top after MaxTurns replies, all of them "tool_use"
\* with registered tools only, and its token is not cancelled
StillLooping ==
  /\ pc = "loop_top"
  /\ ~cancel_token
  /\ iteration_count = MaxTurns
  /\ stop_reason = "tool_use"
  /\ CountType(message_history, "Assistant") = MaxTurns

\* C22: under fair scheduling a run that is under way returns, unless every
\* reply so far was "tool_use" with registered tools and the token is not
\* cancelled; the loop has no cap: whatever the number of turns so far, an
\* uncancelled run at the loop top issues the next exchange, and a run
\* never returns Ok after a "tool_use" reply.
C22_ReturnsUnlessToolUseForever ==
  /\ Started ~> (pc = "returned" \/ StillLooping)
  /\ [](pc = "loop_top" /\ ~cancel_token /\ iteration_count < MaxTurns
          => ENABLED IssueExchange)
  /\ [](pc = "returned" /\ result.val.ok => stop_reason # "tool_use")

\* C22 witness: after a first reply "tool_use" whose batch was executed, a
\* second reply ended the run
C22_Witness ==
  /\ pc = "returned"
  /\ result.val.ok
  /\ iteration_count = 2
  /\ CountType(message_history, "ToolResult") >= 1

\* the control state of the run: Start before the first statement of run,
\* AwaitingModel from the loop top until the exchange has returned,
\* ExecutingTools inside the for loop, and the three ways of having returned
ControlState ==
  CASE pc \in {"main", "no_agent"} -> "NoRun"
    [] pc = "ready" -> "Start"
    [] pc \in {"loop_top", "exchange"} -> "AwaitingModel"
    [] pc = "tools" -> "ExecutingTools"
    [] pc = "returned" ->
         IF result.val.ok THEN "Done"
         ELSE IF result.val.err.kind = "Cancelled" THEN "Cancelled"
         ELSE "Failed"

\* the transitions of the control state the claim allows
ControlTransitions ==
  { <<"NoRun", "Start">>, <<"Start", "AwaitingModel">>,
    <<"AwaitingModel", "ExecutingTools">>, <<"AwaitingModel", "Done">>,
    <<"AwaitingModel", "Cancelled">>, <<"AwaitingModel", "Failed">>,
    <<"ExecutingTools", "AwaitingModel">>, <<"ExecutingTools", "Failed">> }

\* C23: the control state changes only along Start to AwaitingModel,
\* AwaitingModel to ExecutingTools, Done, Cancelled or Failed, and
\* ExecutingTools to AwaitingModel or Failed; once the run has returned, no
\* exchange is issued, no tool is executed and the history does not change.
C23_ControlStateTransitions ==
  [][ /\ ControlState' # ControlState =>
           << ControlState, ControlState' >> \in ControlTransitions
      /\ pc = "returned" =>
           UNCHANGED << pc, result, message_history, iteration_count, request,
                        tool_calls, tool_uses >> ]_vars

\* C23 witness: the token was cancelled inside the for loop and the run is
\* back at the loop top, still not returned
C23_Witness ==
  /\ pc = "loop_top"
  /\ cancel_token
  /\ cancel_pc = "tools"
  /\ Last(message_history).type = "ToolResult"

\* C24: the Assistant message pushed after a successful exchange holds one
\* block per returned item, in the order returned; after a "tool_use" reply
\* the ToolResults pushed so far answer the first ToolUse blocks of that
\* message in order and the invocations still to execute are the rest of
\* them in order, text blocks being skipped.
C24_BatchIsInvocationSubsequence ==
  (outcome.some /\ call_claude_api(outcome.val).ok) =>
    LET items == outcome.val.body.content
        h == message_history
        a == LastAssistantIndex(h)
        blocks == h[a].content
        uses == InvocationsOf(blocks)
        done == Len(h) - a
    IN /\ a > 0
       /\ blocks = content_blocks
       /\ Len(blocks) = Len(items)
       /\ \A i \in 1..Len(items) :
            blocks[i] = IF items[i].type = "text"
                          THEN Text(items[i].text)
                          ELSE ToolUse(items[i].id, items[i].name, items[i].input)
       /\ stop_reason = "tool_use" =>
            /\ done <= Len(uses)
            /\ \A i \in 1..done :
                 /\ h[a + i].type = "ToolResult"
                 /\ h[a + i].tool_use_id = uses[i].id
            /\ tool_uses = SubSeq(uses, done + 1, Len(uses))
       /\ stop_reason # "tool_use" => done = 0

\* C24 witness: a reply made of a text and an invocation is being handled;
\* the batch is that invocation alone
C24_Witness ==
  /\ pc = "tools"
  /\ Len(content_blocks) = 2
  /\ content_blocks[1].type = "Text"
  /\ tool_uses = << content_blocks[2] >>

\* C25: every request carries the whole history accumulated so far and the
\* credential, model id, system prompt and tool descriptors of the Agent;
\* the Agent is never modified; the messages of a request are a strict
\* extension of the messages of the request before it.
C25_FullHistoryEveryExchange ==
  [][ /\ agent.some => agent' = agent
      /\ request' # request =>
           /\ request'.val.messages = messages_to_api_format(message_history)
           /\ Len(request'.val.messages) = Len(message_history)
           /\ request'.val.headers.x_api_key = agent.val.val.api_key
           /\ request'.val.model = agent.val.val.model
           /\ request'.val.system = agent.val.val.system_prompt
           /\ request'.val.tools =
                [i \in 1..Len(agent.val.val.tools) |->
                   [name |-> agent.val.val.tools[i].name,
                    description |-> agent.val.val.tools[i].description,
                    input_schema |-> agent.val.val.tools[i].input_schema]]
           /\ request.some =>
                /\ [request'.val EXCEPT !.messages = <<>>] =
                     [request.val EXCEPT !.messages = <<>>]
                /\ Len(request'.val.messages) > Len(request.val.messages)
                /\ SubSeq(request'.val.messages, 1, Len(request.val.messages)) =
                     request.val.messages ]_vars

\* C25 witness: the second request of a run, sent after a tool batch
C25_Witness ==
  /\ pc = "exchange"
  /\ iteration_count = 2
  /\ Len(request.val.messages) >= 3
  /\ request.val.messages[1].content = JStr(prompt)

\* C26: when the token is cancelled while the exchange is in flight, the
\* iteration ends as it would without the cancellation: a failed exchange
\* returns its own error, a reply with a stop reason other than "tool_use"
\* returns Ok with the history, a "tool_use" reply goes on to its batch.
C26_CancelDuringExchangeIgnored ==
  [][ (pc = "exchange" /\ cancel_token /\ pc' # pc) =>
        LET r == call_claude_api(outcome'.val)
        IN IF ~r.ok
             THEN /\ pc' = "returned"
                  /\ result' = Some(Err(r.err))
                  /\ r.err.kind \in {"ApiError", "ParseError"}
           ELSE IF r.val.stop_reason # "tool_use"
             THEN /\ pc' = "returned"
                  /\ result' = Some(Ok(Append(message_history,
                                              Assistant(r.val.content_blocks))))
             ELSE /\ pc' \in {"tools", "loop_top"}
                  /\ result' = None ]_vars

\* C26 witness: the token was cancelled during the first exchange and the
\* run returned Ok
C26_Witness ==
  /\ pc = "returned"
  /\ cancel_token
  /\ cancel_pc = "exchange"
  /\ iteration_count = 1
  /\ result.val.ok

\* C27: a returned run hands over either Ok with the complete history or
\* an error (Cancelled, ApiError, ParseError, ToolNotFound) that carries no
\* message of the history; a run that has not returned hands over nothing.
C27_HistoryOrErrorNeverBoth ==
  IF pc = "returned"
    THEN /\ result.some
         /\ IF result.val.ok
              THEN /\ DOMAIN result.val = {"ok", "val"}
                   /\ result.val.val = message_history
                   /\ Last(message_history).type = "Assistant"
              ELSE /\ DOMAIN result.val = {"ok", "err"}
                   /\ result.val.err.kind \in
                        {"Cancelled", "ApiError", "ParseError", "ToolNotFound"}
                   /\ \/ result.val.err = Cancelled
                      \/ /\ outcome.some
                         /\ ~call_claude_api(outcome.val).ok
                         /\ result.val.err = call_claude_api(outcome.val).err
                      \/ /\ tool_uses # <<>>
                         /\ result.val.err = ToolNotFound(Head(tool_uses).name)
                   /\ Delivered = <<>>
    ELSE result = None

\* C27 witness: the second exchange failed; the three messages built so far
\* are not handed over
C27_Witness ==
  /\ pc = "returned"
  /\ ReturnedErrKind \in {"ApiError", "ParseError"}
  /\ Len(message_history) >= 3
  /\ Delivered = <<>>

\* C28: tools are executed only after a "tool_use" reply; after a reply
\* with any other stop reason the run has returned with that reply as its
\* last message, and no ToolResult answers an invocation of that reply.
C28_ToolsOnlyOnToolUse ==
  /\ pc = "tools" => stop_reason = "tool_use"
  /\ stop_reason \in StopReasons \ {"tool_use"} =>
       /\ pc = "returned"
       /\ Last(message_history) = Assistant(content_blocks)
       /\ Delivered = message_history
       /\ CountType(message_history, "ToolResult") = tool_calls
       /\ \A i \in 1..Len(content_blocks) :
            content_blocks[i].type = "ToolUse" =>
              \A j \in 1..Len(message_history) :
                message_history[j].type = "ToolResult" =>
                  message_history[j].tool_use_id # content_blocks[i].id

\* C28 witness: an "end_turn" reply that holds an invocation ended a run
\* that had executed a tool before
C28_Witness ==
  /\ pc = "returned"
  /\ stop_reason = "end_turn"
  /\ InvocationsOf(content_blocks) # <<>>
  /\ tool_calls >= 1

\* exchanges of the run that returned a reply so far
SuccessfulExchanges ==
  IF pc = "exchange" \/ ReturnedErrKind \in {"ApiError", "ParseError"}
    THEN iteration_count - 1
    ELSE iteration_count

\* C29: once run has started, the history has 1 + (successful exchanges) +
\* (tools executed) messages; after the first, each is an Assistant message,
\* one per successful exchange, or a ToolResult, one per executed tool; the
\* ToolResults directly follow the Assistant message that requested them.
C29_HistoryLengthAccounting ==
  pc \in {"loop_top", "exchange", "tools", "returned"} =>
    LET h == message_history
    IN /\ Len(h) = 1 + SuccessfulExchanges + tool_calls
       /\ CountType(h, "Assistant") = SuccessfulExchanges
       /\ CountType(h, "ToolResult") = tool_calls
       /\ \A j \in 2..Len(h) : h[j].type \in {"Assistant", "ToolResult"}
       /\ \A j \in 2..Len(h) :
            h[j].type = "ToolResult" =>
              LET a == CHOOSE k \in 1..j :
                         /\ h[k].type # "ToolResult"
                         /\ \A l \in (k + 1)..j : h[l].type = "ToolResult"
              IN /\ h[a].type = "Assistant"
                 /\ j - a <= Len(InvocationsOf(h[a].content))
                 /\ h[j].tool_use_id = InvocationsOf(h[a].content)[j - a].id

\* C29 witness: two replies and two executed tools make a history of five
C29_Witness ==
  /\ Len(message_history) = 5
  /\ iteration_count = 2
  /\ tool_calls = 2

\* C30: create_dummy_tools returns exactly three descriptors, named
\* get_weather, get_time and calculate, and exactly three implementations
\* under those same names, so an invocation of any advertised dummy tool is
\* dispatched to an implementation and answered by a ToolResult.
C30_DummyCatalogConsistent ==
  LET tools == create_dummy_tools.tools
      implementations == create_dummy_tools.implementations
  IN /\ Len(tools) = 3
     /\ { tools[i].name : i \in 1..Len(tools) } = {"get_weather", "get_time", "calculate"}
     /\ DOMAIN implementations = {"get_weather", "get_time", "calculate"}
     /\ Cardinality(DOMAIN implementations) = 3
     /\ ( /\ d_result.some
          /\ d_impls = implementations
          /\ \E i \in 1..Len(tools) : tools[i].name = d_tool_use.name )
        => /\ d_result.val.ok
           /\ d_result.val.val.type = "ToolResult"
           /\ d_result.val.val.tool_use_id = d_tool_use.id

\* C30 witness: an invocation of "calculate" was dispatched on the dummy
\* catalog and answered
C30_Witness ==
  /\ d_impls = create_dummy_tools.implementations
  /\ d_tool_use.name = "calculate"
  /\ d_result.some
  /\ d_result.val.ok
  /\ d_result.val.val.content = "Result of '2 + 2': 42"

\* the field each dummy tool requires
RequiredParam(name) ==
  CASE name = "get_weather" -> "location"
    [] name = "get_time" -> "timezone"
    [] name = "calculate" -> "expression"

\* the strings a JSON value holds under key (empty unless it is an object
\* with a string member of that key)
StringsAt(v, key) ==
  IF v.kind # "object" THEN {}
  ELSE { m[2].str : m \in { n \in v.members : n[1] = key /\ n[2].kind = "string" } }

\* C31: a dummy tool answers "Missing <param> parameter" as an error exactly
\* when its required field is absent or not a string, and its success text
\* otherwise, get_weather taking "celsius" for an absent unit; dispatched,
\* the error becomes the ToolResult "Error: Missing <param> parameter" and
\* not a failure of the run.
C31_DummyToolsRequireTheirParameter ==
  (d_result.some /\ d_tool_use.name \in DOMAIN d_impls) =>
    LET name == d_tool_use.name
        param == RequiredParam(name)
        given == StringsAt(d_tool_use.input, param)
        value == CHOOSE x \in given : TRUE
        units == StringsAt(d_tool_use.input, "unit")
        unit == IF units = {} THEN "celsius" ELSE CHOOSE u \in units : TRUE
    IN /\ d_result.val.ok
       /\ d_result.val.val.type = "ToolResult"
       /\ d_result.val.val.tool_use_id = d_tool_use.id
       /\ d_result.val.val.content =
            IF given = {}
              THEN "Error: Missing " \o param \o " parameter"
            ELSE CASE name = "get_weather" ->
                        "Weather in " \o value \o ": 15 degrees " \o unit \o ", sunny"
                   [] name = "get_time" -> "Current time in " \o value \o ": 14:30"
                   [] name = "calculate" -> "Result of '" \o value \o "': 42"

\* C31 witness: get_weather was dispatched with a location that is not a
\* string and answered with the error text
C31_Witness ==
  /\ d_tool_use.name = "get_weather"
  /\ d_tool_use.input = JObj({<<"location", JNull>>})
  /\ d_result = Some(Ok(ToolResult(d_tool_use.id, "Error: Missing location parameter")))

\* ---- the TUI's Model under update (SpecUpdate)

\* the larger of two numbers
Max(a, b) == IF a >= b THEN a ELSE b

\* s is a prefix of t
IsPrefix(s, t) == Len(s) <= Len(t) /\ SubSeq(t, 1, Len(s)) = s

\* C32: the selected index stays within 0..=max(len(requests)-1, 0) whatever
\* messages update is given; NavigateUp at 0 and NavigateDown at the last index
\* (or with no requests) leave it as it is and otherwise move it by exactly
\* one; get_selected_request is Some whenever there is a request.
C32_SelectionStaysInRange ==
  model # None =>
    LET idx == model.selected_request_index
        len == Len(model.requests)
        up == update(model, NavigateUp).selected_request_index
        down == update(model, NavigateDown).selected_request_index
    IN /\ idx \in 0..Max(len - 1, 0)
       /\ up = IF idx = 0 THEN idx ELSE idx - 1
       /\ down = IF len = 0 \/ idx = len - 1 THEN idx ELSE idx + 1
       /\ len > 0 => get_selected_request(model).some

\* C32 witness: NavigateUp moved the selection of the dummy model from its
\* second request to its first, where NavigateDown may move it back.
C32_Witness ==
  /\ model # None
  /\ Len(model.requests) = 2
  /\ model.selected_request_index = 0
  /\ get_selected_request(model) = Some(ExecutionRequest(1, "GET", "/api/users"))

\* C33: SubmitPrompt always clears the input and sets the mode to Normal; it
\* appends exactly four entries (blank, "> " and the trimmed input, blank,
\* planning) when the trimmed input is not empty and none when the input is
\* empty or whitespace only; no message removes or changes an existing entry.
C33_SubmitPromptAppendsFour ==
  /\ [](model # None =>
         LET after == update(model, SubmitPrompt)
             trimmed == trim(model.input)
         IN /\ after.input = << >>
            /\ after.input_mode = "Normal"
            /\ after.log_entries =
                 IF trimmed # << >>
                 THEN model.log_entries
                        \o << LogEntry("UserPrompt", ""),
                              LogEntry("UserPrompt", "> " \o to_string(trimmed)),
                              LogEntry("UserPrompt", ""),
                              LogEntry("Planning", "{U+1F916} Planning...") >>
                 ELSE model.log_entries)
  /\ [][model # None => IsPrefix(model.log_entries, model'.log_entries)]_vars

\* C33 witness: a prompt was submitted to the dummy Model, after its eleven
\* entries.
C33_Witness ==
  /\ model # None
  /\ Len(model.log_entries) = 15
  /\ SubSeq(model.log_entries, 1, 11) = create_dummy_model.log_entries
  /\ model.log_entries[13] = LogEntry("UserPrompt", "> qi")
  /\ model.log_entries[15].entry_type = "Planning"
  /\ model.input = << >>
  /\ model.input_mode = "Normal"

\* C35: Quit sets the running state to Done, and no message brings it back
\* from Done to Running.
C35_DoneIsAbsorbing ==
  /\ [](model # None => update(model, Quit).running_state = "Done")
  /\ [][(model # None /\ model.running_state = "Done")
          => model'.running_state = "Done"]_vars

\* C35 witness: the Model is Done and in the Editing mode with a typed input
C35_Witness ==
  /\ model # None
  /\ model.running_state = "Done"
  /\ model.input_mode = "Editing"
  /\ model.input = << "q", "i" >>


\* ---- the TUI's Model under key presses (SpecKeys)

\* the messages handle_key may produce in each mode
NormalMessages == {Quit, EnterEditMode, NavigateUp, NavigateDown}
EditingMessages ==
  {DeleteChar, SubmitPrompt, ExitEditMode} \cup { InputChar(c) : c \in InputChars }

\* C34: handle_key produces Quit, EnterEditMode, NavigateUp and NavigateDown
\* only in the Normal mode and InputChar, DeleteChar, SubmitPrompt and
\* ExitEditMode only in the Editing mode (q and i typed while editing are
\* inserted); so with update after it the input changes only while the mode is
\* Editing, the selection only while it is Normal, and the running state
\* becomes Done only from Normal.
C34_ModesSeparateMessages ==
  /\ [](\A k \in KeyEvents :
          /\ handle_key(k, "Normal").some => handle_key(k, "Normal").val \in NormalMessages
          /\ handle_key(k, "Editing").some =>
               handle_key(k, "Editing").val \in EditingMessages
          /\ k.code.kind = "Char" => handle_key(k, "Editing") = Some(InputChar(k.code.c)))
  /\ [][model # None =>
          /\ model'.input # model.input => model.input_mode = "Editing"
          /\ model'.selected_request_index # model.selected_request_index
               => model.input_mode = "Normal"
          /\ (model'.running_state = "Done" /\ model.running_state # "Done")
               => model.input_mode = "Normal"]_vars

\* C34 witness: q and i were typed while editing and the Model still runs
C34_Witness ==
  /\ model # None
  /\ model.input_mode = "Editing"
  /\ model.input = << "q", "i" >>
  /\ model.running_state = "Running"

\* the records m and n differ at most in the given fields
OnlyChanged(m, n, fields) == \A f \in (DOMAIN m) \ fields : m[f] = n[f]

\* C36: EnterEditMode and ExitEditMode change only the input mode (the typed
\* input survives Esc), Quit only the running state, NavigateUp and
\* NavigateDown only the selected index, InputChar and DeleteChar only the
\* input (DeleteChar on an empty input changes nothing), and no message
\* changes the requests.
C36_FrameConditions ==
  model # None =>
    /\ OnlyChanged(model, update(model, EnterEditMode), {"input_mode"})
    /\ OnlyChanged(model, update(model, ExitEditMode), {"input_mode"})
    /\ OnlyChanged(model, update(model, Quit), {"running_state"})
    /\ OnlyChanged(model, update(model, NavigateUp), {"selected_request_index"})
    /\ OnlyChanged(model, update(model, NavigateDown), {"selected_request_index"})
    /\ \A c \in InputChars : OnlyChanged(model, update(model, InputChar(c)), {"input"})
    /\ OnlyChanged(model, update(model, DeleteChar), {"input"})
    /\ model.input = << >> => update(model, DeleteChar) = model
    /\ \A msg \in Messages : update(model, msg).requests = model.requests

\* C36 witness: Esc left the Editing mode with the typed input kept (a
\* submitted input would have been cleared)
C36_Witness ==
  /\ model # None
  /\ model.input_mode = "Normal"
  /\ model.input = << "q", " " >>
  /\ model.log_entries = << >>

\* ---- the Model and the App side by side (SpecPair)

\* corresponding states: the same selected index, input, input mode and log
\* entries, and should_quit exactly when the running state is Done
Corresponds(m, a) ==
  /\ m.selected_request_index = a.selected_request_index
  /\ m.input = a.input
  /\ m.input_mode = a.input_mode
  /\ m.log_entries = a.log_entries
  /\ a.should_quit = (m.running_state = "Done")

\* C37, as stated: from corresponding states every key press without
\* modifiers leaves App::handle_key_event and handle_key with update in
\* corresponding states.
C37_Original_AppEquivalentToModel ==
  (model # None /\ app # None /\ Corresponds(model, app)) =>
    \A k \in KeyEvents :
      k.modifiers = "NONE" =>
        Corresponds(KeyPressed(model, k), App_handle_key_event(app, k))

\* ---- the Counter component (SpecCounter)

\* the u32 one above and one below, in the model's halves
Succ(v) == IF v.lo = Half - 1 THEN [hi |-> v.hi + 1, lo |-> 0] ELSE [v EXCEPT !.lo = @ + 1]
Pred(v) == IF v.lo = 0 THEN [hi |-> v.hi - 1, lo |-> Half - 1] ELSE [v EXCEPT !.lo = @ - 1]

\* C38: Up or j increments the Counter's state by one (below u32::MAX, where
\* the increment overflows), Down or k decrements it by one except at 0 where
\* it stays 0, every other key leaves it as it is; the state is never
\* negative, and n presses of j from the default state give n.
C38_CounterCountsKeys ==
  (counter # None /\ ~counter.panicked) =>
    LET v == counter.state
    IN /\ \A k \in {Char("j"), [kind |-> "Up"]} :
            v # U32_MAX => on_key_pressed(v, k) = { Ok(Succ(v)) }
       /\ \A k \in {Char("k"), [kind |-> "Down"]} :
            on_key_pressed(v, k) = { Ok(IF v = U32(0) THEN v ELSE Pred(v)) }
       /\ \A k \in {Char("q"), [kind |-> "Enter"]} : on_key_pressed(v, k) = { Ok(v) }
       /\ v.hi \in 0..(Half - 1) /\ v.lo \in 0..(Half - 1)
       /\ (counter.start = Counter_default /\ counter.all_j) => v = U32(counter.presses)

\* C38 witness: j was pressed three times on the default Counter, which
\* shows 3
C38_Witness ==
  /\ counter # None
  /\ counter.start = Counter_default
  /\ counter.all_j
  /\ counter.presses = 3
  /\ counter.state = U32(3)

====
